---- MODULE Spec2Model ----
(***************************************************************************)
(* A model of the vote-lockout tower of core/src/consensus.rs: the local   *)
(* lockout stack (VoteState), Tower's vote recording and threshold checks, *)
(* the switch-fork threshold, the post-replay adjustment and the signed    *)
(* save / restore of the tower file.                                       *)
(*                                                                         *)
(* Slots, stakes and public keys are small naturals.  Option<Slot> is a    *)
(* slot or None (-1).  A Vote is [slots, hash]; a Lockout is               *)
(* [slot, confirmation_count].                                             *)
(***************************************************************************)
EXTENDS Integers, Sequences, FiniteSets, TLC

VARIABLES
    tower,      \* the validator's in-memory Tower
    ret,        \* the last operation: its name, its inputs and what it returned
    gaps,       \* SpecStack: how many recorded votes skipped at least one slot;
                \* SpecRoot: how many slots the recorded votes skipped in all
    files,      \* the ledger directory: the file at each tower path
    pc,         \* where the validator process is: idle, inside save, or down
    progress,   \* ProgressMap: the fork stats of each bank
    epoch_vote_accounts, \* the stake of each vote account in the epoch
    sender,     \* the channel of the commitment service: the updates sent
                \* so far, in order, and whether a Sender is still alive
    exit,       \* the exit flag of the commitment service
    service,    \* the aggregation thread: where it is, how many updates it
                \* has received, and the update it holds
    block_commitment_cache  \* the shared BlockCommitmentCache

disk == <<files, pc>>
forks == <<progress, epoch_vote_accounts>>
aggregator == <<sender, exit, service, block_commitment_cache>>
vars == <<tower, ret, gaps, files, pc, progress, epoch_vote_accounts,
          sender, exit, service, block_commitment_cache>>

----------------------------------------------------------------------------
(* Program constants                                                       *)

MAX_LOCKOUT_HISTORY == 32
VOTE_THRESHOLD_DEPTH == 8
INITIAL_LOCKOUT == 2

\* VOTE_THRESHOLD_SIZE = 2/3 as a fraction; an f64 ratio a/b > n/d is
\* compared as a*d > n*b, which agrees with the f64 comparison on the small
\* stakes of the model (also for b = 0: x/0.0 is +inf, 0/0.0 is NaN).
VOTE_THRESHOLD_SIZE == [num |-> 2, den |-> 3]

None == -1

----------------------------------------------------------------------------
(* Bounds of the model                                                     *)

\* Slots of the model are below 2^SlotBits: a lockout of SlotBits or more
\* confirmations cannot expire at any slot of the model.
SlotBits == 12
\* Greatest slot recorded in the deep-stack specification.
DeepMaxSlot == 35
\* Greatest number of slots one recorded vote skips.
MaxGap == 3
\* Greatest number of votes that skip slots in the deep-stack specification.
MaxGaps == 1
\* Greatest slot of the lockout-rule specification.
MaxSlot == 4
\* Greatest oldest slot of a slot history.
MaxOldest == 2
\* Greatest slot of the restart specification.
ReplayMaxSlot == 3
\* Greatest stake of the threshold specification.
MaxStake == 3
\* Greatest threshold depth of the threshold specification.
MaxDepth == 2
\* Greatest slot of the tower file specifications.
PersistMaxSlot == 2
\* Greatest slot of the tower file specification under interference.
TamperMaxSlot == 1
\* Greatest number of words of the tower file written in one step.
WriteChunk == 3
\* Greatest confirmation count of a lockout interval of a bank.
SwitchMaxConfirmations == 1
\* Greatest number of lockout intervals in the progress map.
MaxIntervals == 2
\* Greatest number of votes of the tower in the switch specification.
SwitchMaxVotes == 1
MaxSkipped == 2
ForkRoot == 5

----------------------------------------------------------------------------
(* VoteState (vote program)                                                *)

Last(s) == s[Len(s)]

Lockout(slot) == [slot |-> slot, confirmation_count |-> 1]

\* Lockout::lockout(): INITIAL_LOCKOUT ^ confirmation_count
lockout(l) == INITIAL_LOCKOUT ^ l.confirmation_count

\* Lockout::expiration_slot(): slot + lockout()
expiration_slot(l) == l.slot + lockout(l)

\* Lockout::is_expired(slot): the lockout's expiration slot is below slot.
is_expired(l, slot) ==
    /\ l.confirmation_count < SlotBits
    /\ expiration_slot(l) < slot

DefaultVoteState == [votes |-> <<>>, root_slot |-> None]

\* VoteState::last_voted_slot()
vs_last_voted_slot(vs) ==
    IF vs.votes = <<>> THEN None ELSE Last(vs.votes).slot

\* VoteState::nth_recent_vote(position): the lockout position places below
\* the top of the stack, as <<lockout>>, or <<>> when there is none.
nth_recent_vote(vs, position) ==
    IF position < Len(vs.votes)
    THEN <<vs.votes[Len(vs.votes) - position]>>
    ELSE <<>>

RECURSIVE pop_expired_votes(_, _)
pop_expired_votes(votes, slot) ==
    IF votes # <<>> /\ is_expired(Last(votes), slot)
    THEN pop_expired_votes(SubSeq(votes, 1, Len(votes) - 1), slot)
    ELSE votes

\* VoteState::double_lockouts(): a lockout gains a confirmation when the
\* stack above it (itself included) is deeper than its confirmation count.
double_lockouts(votes) ==
    [i \in 1..Len(votes) |->
        IF Len(votes) > (i - 1) + votes[i].confirmation_count
        THEN [votes[i] EXCEPT !.confirmation_count = @ + 1]
        ELSE votes[i]]

\* VoteState::process_slot(slot)
process_slot(vs, slot) ==
    IF vs.votes # <<>> /\ Last(vs.votes).slot >= slot
    THEN vs
    ELSE
        LET kept == pop_expired_votes(vs.votes, slot)
            full == Len(kept) = MAX_LOCKOUT_HISTORY
            rest == IF full THEN Tail(kept) ELSE kept
        IN  [votes |-> double_lockouts(Append(rest, Lockout(slot))),
             root_slot |-> IF full THEN kept[1].slot ELSE vs.root_slot]

\* VoteState::process_slot_vote_unchecked(slot)
process_slot_vote_unchecked(vs, slot) == process_slot(vs, slot)

\* VoteState::process_vote_unchecked(vote): every slot of the vote in order.
RECURSIVE process_slots(_, _)
process_slots(vs, slots) ==
    IF slots = <<>> THEN vs
    ELSE process_slots(process_slot(vs, Head(slots)), Tail(slots))

process_vote_unchecked(vs, vote) == process_slots(vs, vote.slots)

----------------------------------------------------------------------------
(* Vote                                                                    *)

NewVote(slots, hash) == [slots |-> slots, hash |-> hash]

DefaultVote == NewVote(<<>>, 0)

\* Vote::last_voted_slot()
vote_last_voted_slot(vote) ==
    IF vote.slots = <<>> THEN None ELSE Last(vote.slots)

----------------------------------------------------------------------------
(* Tower                                                                   *)

DefaultBlockTimestamp == [slot |-> 0, timestamp |-> 0]

\* PathBuf::default(): the empty path.
DefaultPath == [key |-> None, ext |-> ""]

DefaultTower ==
    [node_pubkey |-> 0,
     threshold_depth |-> VOTE_THRESHOLD_DEPTH,
     threshold_size |-> VOTE_THRESHOLD_SIZE,
     lockouts |-> DefaultVoteState,
     last_vote |-> DefaultVote,
     last_timestamp |-> DefaultBlockTimestamp,
     path |-> DefaultPath,
     tmp_path |-> DefaultPath,
     stray_restored_slots |-> {}]

\* Tower::last_voted_slot()
last_voted_slot(t) == vote_last_voted_slot(t.last_vote)

\* Tower::root()
root(t) == t.lockouts.root_slot

\* Tower::voted_slots()
voted_slots(t) == [i \in 1..Len(t.lockouts.votes) |-> t.lockouts.votes[i].slot]

\* record_bank_vote pushing a lockout for the vote's slot itself instead of
\* letting the vote state process the vote.
record_bank_vote_pushing(t, vote) ==
    LET votes == IF vote.slots = <<>> THEN t.lockouts.votes
                 ELSE Append(t.lockouts.votes, Lockout(Last(vote.slots)))
    IN  [tower |-> [t EXCEPT !.lockouts.votes = votes, !.last_vote = vote],
         new_root |-> None]

\* record_bank_vote returning the root of the tower whether or not the vote
\* changed it.
record_bank_vote_returning_root(t, vote) ==
    LET lockouts == process_vote_unchecked(t.lockouts, vote)
    IN  [tower |-> [t EXCEPT !.lockouts = lockouts, !.last_vote = vote],
         new_root |-> lockouts.root_slot]

\* Tower::record_bank_vote(vote): the tower afterwards and the returned
\* Option<Slot>.
record_bank_vote(t, vote) ==
    LET lockouts == process_vote_unchecked(t.lockouts, vote)
    IN  [tower |-> [t EXCEPT !.lockouts = lockouts, !.last_vote = vote],
         new_root |-> IF t.lockouts.root_slot # lockouts.root_slot
                      THEN lockouts.root_slot
                      ELSE None]

NoRet == [op |-> "none"]

RecordBankVote(vote) ==
    LET r == record_bank_vote(tower, vote)
    IN  /\ tower' = r.tower
        /\ ret' = [op |-> "record_bank_vote", vote |-> vote,
                   new_root |-> r.new_root, before |-> tower.lockouts]

\* is_recent with the comparison off by one: the last voted slot counts as
\* recent.
is_recent_strict(t, slot) ==
    ~ (t.lockouts.votes # <<>> /\ slot < vs_last_voted_slot(t.lockouts))

\* Tower::is_recent(slot): newer than the last vote on the lockout stack.
is_recent(t, slot) ==
    ~ (t.lockouts.votes # <<>> /\ slot <= vs_last_voted_slot(t.lockouts))

\* The loop of is_locked_out over the simulated stack, from index i on: some
\* vote other than slot itself is not among the slot's ancestors.
RECURSIVE some_vote_not_ancestor(_, _, _, _)
some_vote_not_ancestor(votes, i, slot, slot_ancestors) ==
    IF i > Len(votes) THEN FALSE
    ELSE IF votes[i].slot = slot
         THEN some_vote_not_ancestor(votes, i + 1, slot, slot_ancestors)
    ELSE IF votes[i].slot \notin slot_ancestors THEN TRUE
    ELSE some_vote_not_ancestor(votes, i + 1, slot, slot_ancestors)

\* is_locked_out looking only at the age of the slot.
is_locked_out_recent_only(t, slot, slot_ancestors) ==
    IF ~ is_recent(t, slot) THEN "true" ELSE "false"

\* Tower::is_locked_out(slot, ancestors), given ancestors[slot]:
\* "true", "false", or "panic" when the assertion on the root fails.
is_locked_out(t, slot, slot_ancestors) ==
    IF ~ is_recent(t, slot) THEN "true"
    ELSE
        LET lockouts == process_slot_vote_unchecked(t.lockouts, slot)
        IN  IF some_vote_not_ancestor(lockouts.votes, 1, slot, slot_ancestors)
            THEN "true"
            ELSE IF /\ lockouts.root_slot # None
                    /\ slot # lockouts.root_slot
                    /\ lockouts.root_slot \notin slot_ancestors
            THEN "panic"
            ELSE "false"

IsLockedOut(slot, slot_ancestors) ==
    /\ ret' = [op |-> "is_locked_out", slot |-> slot,
               ancestors |-> slot_ancestors,
               result |-> is_locked_out(tower, slot, slot_ancestors)]
    /\ UNCHANGED tower

\* a / b > size as the f64 comparison decides it.
ratio_exceeds(a, b, size) == a * size.den > size.num * b

\* The threshold check accepting a stake that only equals the threshold.
check_vote_stake_threshold_inclusive(t, slot, voted_stakes, total_stake) ==
    LET lockouts == process_slot_vote_unchecked(t.lockouts, slot)
        vote == nth_recent_vote(lockouts, t.threshold_depth)
    IN  IF vote = <<>> THEN TRUE
        ELSE IF vote[1].slot \notin DOMAIN voted_stakes THEN FALSE
        ELSE IF /\ vote[1].confirmation_count > t.threshold_depth
                /\ \E i \in DOMAIN t.lockouts.votes :
                       t.lockouts.votes[i] = vote[1]
        THEN TRUE
        ELSE voted_stakes[vote[1].slot] * t.threshold_size.den
                 >= t.threshold_size.num * total_stake

\* Tower::check_vote_stake_threshold(slot, voted_stakes, total_stake);
\* voted_stakes is a function from the slots it has entries for to stake.
check_vote_stake_threshold(t, slot, voted_stakes, total_stake) ==
    LET lockouts == process_slot_vote_unchecked(t.lockouts, slot)
        vote == nth_recent_vote(lockouts, t.threshold_depth)
    IN  IF vote = <<>> THEN TRUE
        ELSE IF vote[1].slot \notin DOMAIN voted_stakes THEN FALSE
        ELSE IF /\ vote[1].confirmation_count > t.threshold_depth
                /\ \E i \in DOMAIN t.lockouts.votes :
                       t.lockouts.votes[i] = vote[1]
        THEN TRUE
        ELSE ratio_exceeds(voted_stakes[vote[1].slot], total_stake,
                           t.threshold_size)

CheckVoteStakeThreshold(slot, voted_stakes, total_stake) ==
    /\ ret' = [op |-> "check_vote_stake_threshold", slot |-> slot,
               voted_stakes |-> voted_stakes, total_stake |-> total_stake,
               result |-> check_vote_stake_threshold(tower, slot,
                              voted_stakes, total_stake)]
    /\ UNCHANGED tower

\* The caller takes the result of the last operation.
Return ==
    /\ ret' = NoRet
    /\ UNCHANGED tower

----------------------------------------------------------------------------
(* SlotHistory (sdk): the slots oldest..newest it covers and those of them *)
(* that are on the replayed fork.                                          *)

\* SlotHistory::check(slot)
check(slot_history, slot) ==
    IF slot > slot_history.newest THEN "Future"
    ELSE IF slot < slot_history.oldest THEN "TooOld"
    ELSE IF slot \in slot_history.found THEN "Found"
    ELSE "NotFound"

\* The loop retaining the votes that are not found only.
RECURSIVE retain_flags_not_found(_, _, _, _)
retain_flags_not_found(votes, i, slot_history, st) ==
    IF i = 0 THEN [status |-> "Ok", flags |-> st.flags]
    ELSE
        LET c == check(slot_history, votes[i].slot)
            found == st.found \/ c = "Found"
        IN  IF st.found /\ c = "NotFound"
            THEN [status |-> "InconsistentWithSlotHistory", flags |-> st.flags]
            ELSE IF ~ st.still_in_future /\ c = "Future"
            THEN [status |-> "InconsistentWithSlotHistory", flags |-> st.flags]
            ELSE IF st.past_outside_history /\ c # "TooOld"
            THEN [status |-> "InconsistentWithSlotHistory", flags |-> st.flags]
            ELSE retain_flags_not_found(votes, i - 1, slot_history,
                    [found |-> found,
                     still_in_future |-> st.still_in_future /\ c = "Future",
                     past_outside_history |->
                         st.past_outside_history \/ c = "TooOld",
                     flags |-> [st.flags EXCEPT ![i] = (c = "NotFound")]])

\* The loop rejecting a Found vote below a NotFound vote instead of a
\* NotFound vote below a Found vote.
RECURSIVE retain_flags_found_first(_, _, _, _)
retain_flags_found_first(votes, i, slot_history, st) ==
    IF i = 0 THEN [status |-> "Ok", flags |-> st.flags]
    ELSE
        LET c == check(slot_history, votes[i].slot)
            found == st.found \/ c = "NotFound"
        IN  IF st.found /\ c = "Found"
            THEN [status |-> "InconsistentWithSlotHistory", flags |-> st.flags]
            ELSE IF ~ st.still_in_future /\ c = "Future"
            THEN [status |-> "InconsistentWithSlotHistory", flags |-> st.flags]
            ELSE IF st.past_outside_history /\ c # "TooOld"
            THEN [status |-> "InconsistentWithSlotHistory", flags |-> st.flags]
            ELSE retain_flags_found_first(votes, i - 1, slot_history,
                    [found |-> found,
                     still_in_future |-> st.still_in_future /\ c = "Future",
                     past_outside_history |->
                         st.past_outside_history \/ c = "TooOld",
                     flags |-> [st.flags EXCEPT ![i] = ~ found]])

\* The loop of adjust_lockouts_after_replay over the votes, newest first,
\* from index i down: the retain flags by vote index, or the error.
RECURSIVE retain_flags(_, _, _, _)
retain_flags(votes, i, slot_history, st) ==
    IF i = 0 THEN [status |-> "Ok", flags |-> st.flags]
    ELSE
        LET c == check(slot_history, votes[i].slot)
            found == st.found \/ c = "Found"
        IN  IF st.found /\ c = "NotFound"
            THEN [status |-> "InconsistentWithSlotHistory", flags |-> st.flags]
            ELSE IF ~ st.still_in_future /\ c = "Future"
            THEN [status |-> "InconsistentWithSlotHistory", flags |-> st.flags]
            ELSE IF st.past_outside_history /\ c # "TooOld"
            THEN [status |-> "InconsistentWithSlotHistory", flags |-> st.flags]
            ELSE retain_flags(votes, i - 1, slot_history,
                    [found |-> found,
                     still_in_future |-> st.still_in_future /\ c = "Future",
                     past_outside_history |->
                         st.past_outside_history \/ c = "TooOld",
                     flags |-> [st.flags EXCEPT ![i] = ~ found]])

\* Vec::retain with the flags
RECURSIVE retain(_, _, _)
retain(votes, flags, i) ==
    IF i > Len(votes) THEN <<>>
    ELSE (IF flags[i] THEN <<votes[i]>> ELSE <<>>)
             \o retain(votes, flags, i + 1)

SeqToSet(s) == {s[i] : i \in DOMAIN s}

\* adjust_lockouts_after_replay leaving root_slot as it was when votes are
\* retained.
adjust_lockouts_after_replay_keeping_root(t, replayed_root_slot, slot_history) ==
    LET votes == t.lockouts.votes
        fail(status) == [status |-> status, tower |-> t, error |-> <<>>]
    IN  IF check(slot_history, replayed_root_slot) # "Found"
        THEN fail("panic")
        ELSE IF root(t) # None /\ root(t) > replayed_root_slot
        THEN fail("panic")
        ELSE IF (t.last_vote = DefaultVote) # (votes = <<>>)
        THEN fail("panic")
        ELSE IF votes = <<>>
        THEN (IF root(t) # None THEN fail("panic")
              ELSE [status |-> "Ok", tower |-> t, error |-> <<>>])
        ELSE IF check(slot_history, last_voted_slot(t)) = "TooOld"
        THEN [status |-> "TooOld", tower |-> t,
              error |-> <<last_voted_slot(t), slot_history.oldest>>]
        ELSE
            LET r == retain_flags(votes, Len(votes), slot_history,
                        [found |-> FALSE, still_in_future |-> TRUE,
                         past_outside_history |-> FALSE,
                         flags |-> [i \in 1..Len(votes) |-> FALSE]])
                kept == retain(votes, r.flags, 1)
            IN  IF r.status # "Ok" THEN fail(r.status)
                ELSE IF kept = <<>>
                THEN [status |-> "Ok", error |-> <<>>,
                      tower |-> [t EXCEPT
                          !.lockouts = [votes |-> <<>>, root_slot |-> None],
                          !.last_vote = DefaultVote]]
                ELSE IF last_voted_slot(t) # Last(kept).slot
                THEN fail("panic")
                ELSE [status |-> "Ok", error |-> <<>>,
                      tower |-> [t EXCEPT
                          !.lockouts.votes = kept,
                          !.stray_restored_slots =
                              {kept[i].slot : i \in DOMAIN kept}]]

\* adjust_lockouts_after_replay without the test of the last voted slot
\* against the oldest slot of the history.
adjust_lockouts_after_replay_without_too_old(t, replayed_root_slot, slot_history) ==
    LET votes == t.lockouts.votes
        fail(status) == [status |-> status, tower |-> t, error |-> <<>>]
    IN  IF check(slot_history, replayed_root_slot) # "Found"
        THEN fail("panic")
        ELSE IF root(t) # None /\ root(t) > replayed_root_slot
        THEN fail("panic")
        ELSE IF (t.last_vote = DefaultVote) # (votes = <<>>)
        THEN fail("panic")
        ELSE IF votes = <<>>
        THEN (IF root(t) # None THEN fail("panic")
              ELSE [status |-> "Ok", tower |-> t, error |-> <<>>])
        ELSE
            LET r == retain_flags(votes, Len(votes), slot_history,
                        [found |-> FALSE, still_in_future |-> TRUE,
                         past_outside_history |-> FALSE,
                         flags |-> [i \in 1..Len(votes) |-> FALSE]])
                kept == retain(votes, r.flags, 1)
            IN  IF r.status # "Ok" THEN fail(r.status)
                ELSE IF kept = <<>>
                THEN [status |-> "Ok", error |-> <<>>,
                      tower |-> [t EXCEPT
                          !.lockouts = [votes |-> <<>>, root_slot |-> None],
                          !.last_vote = DefaultVote]]
                ELSE IF last_voted_slot(t) # Last(kept).slot
                THEN fail("panic")
                ELSE [status |-> "Ok", error |-> <<>>,
                      tower |-> [t EXCEPT
                          !.lockouts = [votes |-> kept,
                                        root_slot |-> replayed_root_slot],
                          !.stray_restored_slots =
                              {kept[i].slot : i \in DOMAIN kept}]]

\* Tower::adjust_lockouts_after_replay(replayed_root_slot, slot_history):
\* the status ("Ok", an error, or "panic" on a failed assertion) and the
\* tower returned on Ok.
adjust_lockouts_after_replay(t, replayed_root_slot, slot_history) ==
    LET votes == t.lockouts.votes
        fail(status) == [status |-> status, tower |-> t, error |-> <<>>]
    IN  IF check(slot_history, replayed_root_slot) # "Found"
        THEN fail("panic")
        ELSE IF root(t) # None /\ root(t) > replayed_root_slot
        THEN fail("panic")
        ELSE IF (t.last_vote = DefaultVote) # (votes = <<>>)
        THEN fail("panic")
        ELSE IF votes = <<>>
        THEN (IF root(t) # None THEN fail("panic")
              ELSE [status |-> "Ok", tower |-> t, error |-> <<>>])
        ELSE IF check(slot_history, last_voted_slot(t)) = "TooOld"
        THEN [status |-> "TooOld", tower |-> t,
              error |-> <<last_voted_slot(t), slot_history.oldest>>]
        ELSE
            LET r == retain_flags(votes, Len(votes), slot_history,
                        [found |-> FALSE, still_in_future |-> TRUE,
                         past_outside_history |-> FALSE,
                         flags |-> [i \in 1..Len(votes) |-> FALSE]])
                kept == retain(votes, r.flags, 1)
            IN  IF r.status # "Ok" THEN fail(r.status)
                ELSE IF kept = <<>>
                THEN [status |-> "Ok", error |-> <<>>,
                      tower |-> [t EXCEPT
                          !.lockouts = [votes |-> <<>>, root_slot |-> None],
                          !.last_vote = DefaultVote]]
                ELSE IF last_voted_slot(t) # Last(kept).slot
                THEN fail("panic")
                ELSE [status |-> "Ok", error |-> <<>>,
                      tower |-> [t EXCEPT
                          !.lockouts = [votes |-> kept,
                                        root_slot |-> replayed_root_slot],
                          !.stray_restored_slots =
                              {kept[i].slot : i \in DOMAIN kept}]]

AdjustLockoutsAfterReplay(replayed_root_slot, slot_history) ==
    LET r == adjust_lockouts_after_replay(tower, replayed_root_slot,
                                          slot_history)
    IN  /\ tower' = r.tower
        /\ ret' = [op |-> "adjust_lockouts_after_replay",
                   status |-> r.status,
                   error |-> r.error,
                   replayed_root_slot |-> replayed_root_slot,
                   slot_history |-> slot_history,
                   before |-> tower]

----------------------------------------------------------------------------
(* The tower file: bincode, signatures, the ledger directory               *)

\* The node identities of the model; a keypair is named by its public key.
Nodes == {1, 2}

pubkey(keypair) == keypair

\* Keypair::sign_message(data): a signature is determined by the signing key
\* and the signed bytes.
sign_message(keypair, data) == [signer |-> pubkey(keypair), message |-> data]

\* Signature::verify(pubkey, data)
signature_verify(signature, node_pubkey, data) ==
    /\ signature.signer = node_pubkey
    /\ signature.message = data

\* Tower::get_filename(path, node_pubkey): tower-{node_pubkey}.bin in the
\* one ledger directory of the model.
get_filename(node_pubkey) == [key |-> node_pubkey, ext |-> "bin"]

\* Tower::get_tmp_filename(path)
get_tmp_filename(path) == [path EXCEPT !.ext = "bin.new"]

Paths == {get_filename(k) : k \in Nodes}
             \cup {get_tmp_filename(get_filename(k)) : k \in Nodes}

\* A file is its content, a sequence of words, or does not exist.
NoFile == [exists |-> FALSE, content |-> <<>>]

NoFiles == [p \in Paths |-> NoFile]

\* bincode of Option<Slot>: a tag, then the value if there is one.
serialize_option(o) == IF o = None THEN <<0>> ELSE <<1, o>>

\* bincode of VoteState: the length of votes, the lockouts, root_slot.
serialize_vote_state(vs) ==
    <<Len(vs.votes)>>
        \o [i \in 1..(2 * Len(vs.votes)) |->
               IF i % 2 = 1 THEN vs.votes[(i + 1) \div 2].slot
               ELSE vs.votes[i \div 2].confirmation_count]
        \o serialize_option(vs.root_slot)

\* bincode of Vote: the length of slots, the slots, the hash.
serialize_vote(vote) == <<Len(vote.slots)>> \o vote.slots \o <<vote.hash>>

\* The serialization writing a default last_vote in place of the tower's.
serialize_tower_skipping_last_vote(t) ==
    <<t.node_pubkey, t.threshold_depth,
      t.threshold_size.num, t.threshold_size.den>>
        \o serialize_vote_state(t.lockouts)
        \o serialize_vote(DefaultVote)
        \o <<t.last_timestamp.slot, t.last_timestamp.timestamp>>

\* bincode::serialize(tower): the fields of Tower that are not serde(skip),
\* in declaration order.
serialize_tower(t) ==
    <<t.node_pubkey, t.threshold_depth,
      t.threshold_size.num, t.threshold_size.den>>
        \o serialize_vote_state(t.lockouts)
        \o serialize_vote(t.last_vote)
        \o <<t.last_timestamp.slot, t.last_timestamp.timestamp>>

\* bincode::deserialize::<Tower>(data): the skipped fields take their
\* defaults.  nv, tag and ns are the words read as the length of votes, the
\* tag of root_slot and the length of last_vote.slots.
deserialize_tower(data) ==
    LET n == Len(data)
        err == [status |-> "SerializeError"]
    IN  IF n < 5 THEN err
        ELSE LET nv == data[5]
                 p == 5 + 2 * nv
             IN  IF n < p + 1 \/ data[p + 1] \notin {0, 1} THEN err
                 ELSE LET tag == data[p + 1]
                          q == p + 1 + tag
                      IN  IF n < q + 1 THEN err
                          ELSE LET ns == data[q + 1]
                                   r == q + 1 + ns
                               IN  IF n < r + 3 THEN err
                                   ELSE
    [status |-> "Ok",
     tower |->
        [node_pubkey |-> data[1],
         threshold_depth |-> data[2],
         threshold_size |-> [num |-> data[3], den |-> data[4]],
         lockouts |->
            [votes |-> [i \in 1..nv |->
                          [slot |-> data[5 + 2 * i - 1],
                           confirmation_count |-> data[5 + 2 * i]]],
             root_slot |-> IF tag = 1 THEN data[p + 2] ELSE None],
         last_vote |-> [slots |-> [i \in 1..ns |-> data[q + 1 + i]],
                        hash |-> data[r + 1]],
         last_timestamp |-> [slot |-> data[r + 2],
                             timestamp |-> data[r + 3]],
         path |-> DefaultPath,
         tmp_path |-> DefaultPath,
         stray_restored_slots |-> {}]]

\* SavedTower::new(tower, keypair)
SavedTower_new(t, keypair) ==
    LET data == serialize_tower(t)
    IN  [signature |-> sign_message(keypair, data), data |-> data]

\* SavedTower::verify(pubkey)
SavedTower_verify(saved_tower, node_pubkey) ==
    signature_verify(saved_tower.signature, node_pubkey, saved_tower.data)

\* SavedTower::deserialize()
SavedTower_deserialize(saved_tower) == deserialize_tower(saved_tower.data)

\* bincode of SavedTower: the signature, the length of data, the data.
serialize_saved_tower(saved_tower) ==
    <<saved_tower.signature, Len(saved_tower.data)>> \o saved_tower.data

\* bincode::deserialize_from::<SavedTower>(stream): fails when the stream
\* ends before the announced length of data.
deserialize_saved_tower(content) ==
    IF Len(content) < 2 \/ Len(content) < 2 + content[2]
    THEN [status |-> "SerializeError"]
    ELSE [status |-> "Ok",
          saved_tower |-> [signature |-> content[1],
                           data |-> SubSeq(content, 3, 2 + content[2])]]

\* A rename that leaves the destination as it was.
rename_dropped(fs, from, to) ==
    IF from = to THEN fs ELSE [fs EXCEPT ![from] = NoFile]

\* fs::rename(from, to)
rename(fs, from, to) ==
    IF from = to THEN fs
    ELSE [fs EXCEPT ![to] = fs[from], ![from] = NoFile]

\* save writing to the final path in place of the temporary sibling.
new_filename_in_place(t) == t.path

\* The file save creates and writes: let new_filename = &self.tmp_path.
new_filename(t) == t.tmp_path

\* restore that does not verify the signature of the saved tower.
restore_unverified(fs, node_pubkey) ==
    LET filename == get_filename(node_pubkey)
    IN  IF ~ fs[filename].exists THEN [status |-> "IOError"]
        ELSE
        LET saved == deserialize_saved_tower(fs[filename].content)
        IN  IF saved.status # "Ok" THEN [status |-> "SerializeError"]
            ELSE
            LET t == SavedTower_deserialize(saved.saved_tower)
            IN  IF t.status # "Ok" THEN [status |-> "SerializeError"]
                ELSE IF t.tower.node_pubkey # node_pubkey
                THEN [status |-> "WrongTower"]
                ELSE [status |-> "Ok",
                      tower |-> [t.tower EXCEPT
                          !.path = filename,
                          !.tmp_path = get_tmp_filename(filename)]]

\* Tower::restore(path, node_pubkey) on the directory fs: the error, or Ok
\* and the tower.
restore(fs, node_pubkey) ==
    LET filename == get_filename(node_pubkey)
    IN  IF ~ fs[filename].exists THEN [status |-> "IOError"]
        ELSE
        LET saved == deserialize_saved_tower(fs[filename].content)
        IN  IF saved.status # "Ok" THEN [status |-> "SerializeError"]
            ELSE IF ~ SavedTower_verify(saved.saved_tower, node_pubkey)
            THEN [status |-> "InvalidSignature"]
            ELSE
            LET t == SavedTower_deserialize(saved.saved_tower)
            IN  IF t.status # "Ok" THEN [status |-> "SerializeError"]
                ELSE IF t.tower.node_pubkey # node_pubkey
                THEN [status |-> "WrongTower"]
                ELSE [status |-> "Ok",
                      tower |-> [t.tower EXCEPT
                          !.path = filename,
                          !.tmp_path = get_tmp_filename(filename)]]

\* Tower::new, without a vote account in the heaviest bank.
Tower_new(node_pubkey) ==
    [DefaultTower EXCEPT
        !.node_pubkey = node_pubkey,
        !.path = get_filename(node_pubkey),
        !.tmp_path = get_tmp_filename(get_filename(node_pubkey))]

\* The position of the process: at is "idle", "create", "write", "rename"
\* or "down"; keypair is the identity keypair of the validator, and inside
\* save written is the number of words of the saved tower already written.
Idle == [at |-> "idle", keypair |-> 0, written |-> 0]

\* save(node_keypair) up to its first file operation: the identity check.
SaveBegin(node_keypair) ==
    /\ pc.at = "idle"
    /\ ret.op # "restore"
    /\ IF tower.node_pubkey # pubkey(node_keypair)
       THEN /\ ret' = [op |-> "save", status |-> "WrongTower"]
            /\ pc' = pc
       ELSE IF new_filename(tower) \notin Paths
       THEN /\ ret' = [op |-> "save", status |-> "IOError"]
            /\ pc' = pc
       ELSE /\ ret' = [op |-> "save", status |-> "running"]
            /\ pc' = [at |-> "create", keypair |-> node_keypair,
                      written |-> 0]
    /\ UNCHANGED <<tower, files>>

\* File::create(new_filename): an empty file, whatever was there.
SaveCreate ==
    /\ pc.at = "create"
    /\ files' = [files EXCEPT ![new_filename(tower)] =
                     [exists |-> TRUE, content |-> <<>>]]
    /\ pc' = [pc EXCEPT !.at = "write"]
    /\ UNCHANGED <<tower, ret>>

Min(a, b) == IF a < b THEN a ELSE b

\* bincode::serialize_into(file, saved_tower): the next words reach the
\* file, at most WriteChunk of them in one step; the file is closed after
\* the last one.
SaveWrite ==
    /\ pc.at = "write"
    /\ LET bytes == serialize_saved_tower(SavedTower_new(tower, pc.keypair))
           upto == Min(pc.written + WriteChunk, Len(bytes))
       IN  /\ files' = [files EXCEPT ![new_filename(tower)].content =
                           @ \o SubSeq(bytes, pc.written + 1, upto)]
           /\ pc' = IF upto = Len(bytes)
                    THEN [pc EXCEPT !.at = "rename"]
                    ELSE [pc EXCEPT !.written = upto]
    /\ UNCHANGED <<tower, ret>>

\* fs::rename(new_filename, filename), and save returns Ok.
SaveRename ==
    /\ pc.at = "rename"
    /\ files' = rename(files, new_filename(tower), tower.path)
    /\ pc' = [pc EXCEPT !.at = "idle", !.written = 0]
    /\ ret' = [op |-> "save", status |-> "Ok"]
    /\ UNCHANGED tower

\* The process dies: its memory is lost, the files stay as they are.
Crash ==
    /\ pc.at # "down"
    /\ ret.op # "restore"
    /\ pc' = [pc EXCEPT !.at = "down", !.written = 0]
    /\ tower' = DefaultTower
    /\ ret' = [op |-> "crash"]
    /\ UNCHANGED files

\* Tower::restore(path, node_pubkey), by the running validator or at boot;
\* after_save tells that it follows a save by the same identity that
\* returned Ok.
Restore(node_pubkey) ==
    /\ pc.at \in {"idle", "down"}
    /\ ret.op # "restore"
    /\ ret' = [op |-> "restore", pubkey |-> node_pubkey,
               after_save |-> /\ ret.op = "save"
                              /\ ret.status = "Ok"
                              /\ tower.node_pubkey = node_pubkey,
               result |-> restore(files, node_pubkey)]
    /\ UNCHANGED <<tower, files, pc>>

\* The validator starts with the tower restored for its identity, or with
\* a new one when there was no tower file; any other error of restore stops
\* the boot.
Boot ==
    /\ pc.at = "down"
    /\ ret.op = "restore"
    /\ ret.pubkey = pubkey(pc.keypair)
    /\ ret.result.status \in {"Ok", "IOError"}
    /\ tower' = IF ret.result.status = "Ok" THEN ret.result.tower
                ELSE Tower_new(ret.pubkey)
    /\ pc' = [pc EXCEPT !.at = "idle"]
    /\ ret' = NoRet
    /\ UNCHANGED files

\* The bytes of a file with the word at index i altered: the signature
\* becomes one that no key produced, another word moves by delta.
alter(content, i, delta) ==
    [content EXCEPT ![i] =
        IF i = 1 THEN [signer |-> None, message |-> <<>>] ELSE @ + delta]

\* Someone alters one word of an intact tower file.
Tamper(node_pubkey, i, delta) ==
    /\ pc.at \in {"idle", "down"}
    /\ ret.op # "restore"
    /\ restore(files, node_pubkey).status = "Ok"
    /\ i \in 1..Len(files[get_filename(node_pubkey)].content)
    /\ files' = [files EXCEPT ![get_filename(node_pubkey)].content =
                     alter(@, i, delta)]
    /\ ret' = [op |-> "tamper", pubkey |-> node_pubkey, index |-> i,
               delta |-> delta]
    /\ UNCHANGED <<tower, pc>>

\* Someone puts a tower file that node from saved at the path of node to.
Misplace(from, to, t) ==
    /\ pc.at \in {"idle", "down"}
    /\ ret.op # "restore"
    /\ from # to
    /\ t.node_pubkey = pubkey(from)
    /\ files' = [files EXCEPT ![get_filename(to)] =
                     [exists |-> TRUE,
                      content |-> serialize_saved_tower(
                                      SavedTower_new(t, from))]]
    /\ ret' = [op |-> "misplace", pubkey |-> to, from |-> from]
    /\ UNCHANGED <<tower, pc>>

----------------------------------------------------------------------------
(* The switch-fork threshold                                               *)

\* SWITCH_FORK_THRESHOLD = 0.38 as a fraction.
SWITCH_FORK_THRESHOLD == [num |-> 38, den |-> 100]

\* The bank forks of the model: the parent of each slot above 0.
\*        /- 2
\* 0 - 1 --- 3
\*        \- 4
Parent == <<0, 1, 1, 1>>

ForkSlots == 0..Len(Parent)

RECURSIVE AncestorsOf(_)
AncestorsOf(slot) ==
    IF slot = 0 THEN {} ELSE {Parent[slot]} \cup AncestorsOf(Parent[slot])

\* BankForks::ancestors() and BankForks::descendants()
bank_ancestors == [slot \in ForkSlots |-> AncestorsOf(slot)]
bank_descendants ==
    [slot \in ForkSlots |-> {d \in ForkSlots : slot \in AncestorsOf(d)}]

\* The vote accounts of the model.
VoteAccounts == {11, 12}

\* let root = self.lockouts.root_slot.unwrap_or(0)
SwitchRootOf(t) ==
    IF t.lockouts.root_slot = None THEN 0 ELSE t.lockouts.root_slot

\* is_stray_last_vote ignoring the stray restored slots.
is_stray_last_vote_never(t) == FALSE

\* Tower::is_stray_last_vote()
is_stray_last_vote(t) ==
    /\ last_voted_slot(t) # None
    /\ last_voted_slot(t) \in t.stray_restored_slots

\* progress.get_fork_stats(slot).map(|stats| stats.computed).unwrap_or(false)
fork_stats_computed(progress_map, slot) ==
    /\ slot \in DOMAIN progress_map
    /\ progress_map[slot].computed

\* A lockout interval of a bank: the vote account is locked out on start
\* until end; the intervals of a bank are kept ordered by end.
IntervalBefore(x, y) ==
    \/ x.end < y.end
    \/ x.end = y.end /\ x.start < y.start
    \/ x.end = y.end /\ x.start = y.start /\ x.voter <= y.voter

FirstInterval(intervals) ==
    CHOOSE x \in intervals : \A y \in intervals : IntervalBefore(x, y)

\* epoch_vote_accounts.get(pubkey).map(|(stake, _)| *stake).unwrap_or(0)
epoch_stake(accounts, vote_account_pubkey) ==
    IF vote_account_pubkey \in DOMAIN accounts
    THEN accounts[vote_account_pubkey]
    ELSE 0

\* The inner loops counting a vote account again for each of its intervals.
RECURSIVE scan_intervals_recounting(_, _, _, _, _)
scan_intervals_recounting(intervals, acc, last_vote_ancestors, root_slot, accounts) ==
    IF intervals = {} THEN acc
    ELSE
        LET iv == FirstInterval(intervals)
            rest == intervals \ {iv}
        IN  IF /\ iv.start \notin last_vote_ancestors
               /\ iv.start > root_slot
            THEN scan_intervals_recounting(rest,
                     [acc EXCEPT
                         !.locked_out_stake =
                             @ + epoch_stake(accounts, iv.voter),
                         !.locked_out_vote_accounts = @ \cup {iv.voter}],
                     last_vote_ancestors, root_slot, accounts)
            ELSE scan_intervals_recounting(rest, acc, last_vote_ancestors,
                                           root_slot, accounts)

\* The inner loops without the test that the interval does not start on an
\* ancestor of the last vote.
RECURSIVE scan_intervals_counting_ancestors(_, _, _, _, _)
scan_intervals_counting_ancestors(intervals, acc, last_vote_ancestors, root_slot, accounts) ==
    IF intervals = {} THEN acc
    ELSE
        LET iv == FirstInterval(intervals)
            rest == intervals \ {iv}
        IN  IF iv.voter \in acc.locked_out_vote_accounts
            THEN scan_intervals_counting_ancestors(rest, acc,
                     last_vote_ancestors, root_slot, accounts)
            ELSE IF iv.start > root_slot
            THEN scan_intervals_counting_ancestors(rest,
                     [acc EXCEPT
                         !.locked_out_stake =
                             @ + epoch_stake(accounts, iv.voter),
                         !.locked_out_vote_accounts = @ \cup {iv.voter}],
                     last_vote_ancestors, root_slot, accounts)
            ELSE scan_intervals_counting_ancestors(rest, acc,
                     last_vote_ancestors, root_slot, accounts)

\* The two inner loops of check_switch_threshold over the lockout intervals
\* of one candidate bank that end at or after the last vote; acc is
\* locked_out_stake and locked_out_vote_accounts.
RECURSIVE scan_intervals(_, _, _, _, _)
scan_intervals(intervals, acc, last_vote_ancestors, root_slot, accounts) ==
    IF intervals = {} THEN acc
    ELSE
        LET iv == FirstInterval(intervals)
            rest == intervals \ {iv}
        IN  IF iv.voter \in acc.locked_out_vote_accounts
            THEN scan_intervals(rest, acc, last_vote_ancestors, root_slot,
                                accounts)
            ELSE IF /\ iv.start \notin last_vote_ancestors
                    /\ iv.start > root_slot
            THEN scan_intervals(rest,
                     [acc EXCEPT
                         !.locked_out_stake =
                             @ + epoch_stake(accounts, iv.voter),
                         !.locked_out_vote_accounts = @ \cup {iv.voter}],
                     last_vote_ancestors, root_slot, accounts)
            ELSE scan_intervals(rest, acc, last_vote_ancestors, root_slot,
                                accounts)

\* The skip condition without the test for the last voted slot itself.
skip_candidate_keeping_last_vote(candidate_slot, last_vote, root_slot, ancestors, descendants, progress_map) ==
    \/ ~ fork_stats_computed(progress_map, candidate_slot)
    \/ \E d \in descendants[candidate_slot] :
           fork_stats_computed(progress_map, d)
    \/ last_vote \in ancestors[candidate_slot]
    \/ candidate_slot <= root_slot

\* The condition under which the outer loop skips candidate_slot.
skip_candidate(candidate_slot, last_vote, root_slot, ancestors, descendants, progress_map) ==
    \/ ~ fork_stats_computed(progress_map, candidate_slot)
    \/ \E d \in descendants[candidate_slot] :
           fork_stats_computed(progress_map, d)
    \/ candidate_slot = last_vote
    \/ last_vote \in ancestors[candidate_slot]
    \/ candidate_slot <= root_slot

\* The outer loop of check_switch_threshold over the entries of descendants
\* not yet visited; acc gains the flag panic when the assertion on a
\* candidate fails.
RECURSIVE scan_candidates(_, _, _, _, _, _, _, _)
scan_candidates(candidates, acc, last_vote, last_vote_ancestors, root_slot, ancestors, descendants, inputs) ==
    IF candidates = {} THEN acc
    ELSE
        LET candidate_slot == CHOOSE c \in candidates :
                                  \A o \in candidates : c <= o
            rest == candidates \ {candidate_slot}
        IN  IF skip_candidate(candidate_slot, last_vote, root_slot,
                              ancestors, descendants, inputs.progress)
            THEN scan_candidates(rest, acc, last_vote, last_vote_ancestors,
                                 root_slot, ancestors, descendants, inputs)
            ELSE IF candidate_slot \in last_vote_ancestors
            THEN [acc EXCEPT !.panic = TRUE]
            ELSE
                LET in_range ==
                        {iv \in inputs.progress[candidate_slot]
                                    .lockout_intervals :
                            iv.end >= last_vote}
                    counted == scan_intervals(in_range, acc,
                                   last_vote_ancestors, root_slot,
                                   inputs.epoch_vote_accounts)
                IN  scan_candidates(rest, counted, last_vote,
                                    last_vote_ancestors, root_slot,
                                    ancestors, descendants, inputs)

\* check_switch_threshold asking for a proof also when switch_slot is a
\* descendant of the last vote.
check_switch_threshold_descendant_proof(t, switch_slot, ancestors, descendants, progress_map, total_stake, accounts) ==
    IF last_voted_slot(t) = None THEN "NoSwitch"
    ELSE IF switch_slot = last_voted_slot(t) THEN "NoSwitch"
    ELSE
        LET acc == scan_candidates(DOMAIN descendants,
                       [locked_out_stake |-> 0,
                        locked_out_vote_accounts |-> {},
                        panic |-> FALSE],
                       last_voted_slot(t), ancestors[last_voted_slot(t)],
                       SwitchRootOf(t), ancestors, descendants,
                       [progress |-> progress_map,
                        epoch_vote_accounts |-> accounts])
        IN  IF ratio_exceeds(acc.locked_out_stake, total_stake,
                             SWITCH_FORK_THRESHOLD)
            THEN "SwitchProof"
            ELSE "FailedSwitchThreshold"

\* Tower::check_switch_threshold(switch_slot, ancestors, descendants,
\* progress, total_stake, epoch_vote_accounts): the decision, or "panic"
\* when an assertion fails.
check_switch_threshold(t, switch_slot, ancestors, descendants, progress_map, total_stake, accounts) ==
    IF last_voted_slot(t) = None THEN "NoSwitch"
    ELSE
        LET last_vote == last_voted_slot(t)
            root_slot == SwitchRootOf(t)
            last_vote_ancestors ==
                IF is_stray_last_vote(t) THEN t.stray_restored_slots
                ELSE ancestors[last_vote]
        IN  IF ~ is_stray_last_vote(t) /\ last_vote \notin DOMAIN ancestors
            THEN "panic"
            ELSE IF switch_slot \notin DOMAIN ancestors THEN "panic"
            ELSE IF switch_slot = last_vote
                        \/ last_vote \in ancestors[switch_slot]
            THEN "NoSwitch"
            ELSE IF switch_slot \in last_vote_ancestors THEN "panic"
            ELSE
                LET acc == scan_candidates(DOMAIN descendants,
                               [locked_out_stake |-> 0,
                                locked_out_vote_accounts |-> {},
                                panic |-> FALSE],
                               last_vote, last_vote_ancestors, root_slot,
                               ancestors, descendants,
                               [progress |-> progress_map,
                                epoch_vote_accounts |-> accounts])
                IN  IF acc.panic THEN "panic"
                    ELSE IF ratio_exceeds(acc.locked_out_stake, total_stake,
                                          SWITCH_FORK_THRESHOLD)
                    THEN "SwitchProof"
                    ELSE "FailedSwitchThreshold"

CheckSwitchThreshold(switch_slot, total_stake) ==
    /\ ret' = [op |-> "check_switch_threshold", switch_slot |-> switch_slot,
               total_stake |-> total_stake,
               result |-> check_switch_threshold(tower, switch_slot,
                              bank_ancestors, bank_descendants, progress,
                              total_stake, epoch_vote_accounts)]
    /\ UNCHANGED <<tower, progress, epoch_vote_accounts>>

\* ProgressMap::default()
NoProgress == <<>>

RECURSIVE CountIntervals(_, _)
CountIntervals(progress_map, slots) ==
    IF slots = {} THEN 0
    ELSE LET s == CHOOSE x \in slots : TRUE
         IN  Cardinality(progress_map[s].lockout_intervals)
                 + CountIntervals(progress_map, slots \ {s})

\* The lockout intervals a bank can hold: votes of the vote accounts for
\* the bank's slot or an ancestor, locked out until their expiration slot.
BankIntervals(slot) ==
    {[end |-> expiration_slot([slot |-> start, confirmation_count |-> c]),
      start |-> start, voter |-> v] :
        start \in AncestorsOf(slot) \cup {slot},
        c \in 1..SwitchMaxConfirmations,
        v \in VoteAccounts}

\* The replay stage computes the stats of a frozen bank whose parent has
\* its stats: the entry of the bank in the progress map, with the lockout
\* intervals collected from the vote accounts of the bank.
ComputeBankStats(slot, intervals) ==
    /\ slot \notin DOMAIN progress
    /\ IF slot = 0 THEN TRUE ELSE Parent[slot] \in DOMAIN progress
    /\ intervals \subseteq BankIntervals(slot)
    /\ Cardinality(intervals) + CountIntervals(progress, DOMAIN progress)
           <= MaxIntervals
    /\ progress' = [s \in DOMAIN progress \cup {slot} |->
                       IF s = slot
                       THEN [computed |-> TRUE,
                             lockout_intervals |-> intervals]
                       ELSE progress[s]]
    /\ UNCHANGED <<tower, ret, epoch_vote_accounts>>

----------------------------------------------------------------------------
(* The commitment service before it has received anything                  *)
(* (core/src/commitment.rs)                                                *)

\* Bank::default(), as far as the commitment service reads a bank: its
\* slot, its status cache ancestors and its vote accounts.
DefaultBank == [slot |-> 0, ancestors |-> <<>>, vote_accounts |-> <<>>]

\* BlockCommitmentCache::default()
DefaultBlockCommitmentCache ==
    [block_commitment |-> <<>>, largest_confirmed_root |-> 0,
     total_stake |-> 0, bank |-> DefaultBank, root |-> 0]

\* AggregateCommitmentService::new: an empty channel with its Sender, the
\* exit flag unset, the thread at the top of its loop, the cache as its
\* owner made it.
ServiceIdle ==
    /\ sender = [sent |-> <<>>, connected |-> TRUE]
    /\ exit = FALSE
    /\ service = [at |-> "check", received |-> 0, aggregation_data |-> 0,
                  published |-> <<>>]
    /\ block_commitment_cache = DefaultBlockCommitmentCache

----------------------------------------------------------------------------
(* Specification of the lockout stack: votes for rising slots, a bounded   *)
(* number of them skipping slots, and repeated votes for the last slot.    *)

InitStack ==
    /\ tower = DefaultTower
    /\ ret = NoRet
    /\ gaps = 0
    /\ files = NoFiles
    /\ pc = Idle
    /\ progress = NoProgress
    /\ epoch_vote_accounts = <<>>
    /\ ServiceIdle

StackNextSlot == vs_last_voted_slot(tower.lockouts) + 1

RecordNextSlot ==
    /\ StackNextSlot <= DeepMaxSlot
    /\ RecordBankVote(NewVote(<<StackNextSlot>>, 0))
    /\ UNCHANGED <<gaps, disk, forks, aggregator>>

RecordSkippingSlot ==
    \E g \in 1..MaxGap :
        /\ gaps < MaxGaps
        /\ StackNextSlot + g <= DeepMaxSlot
        /\ RecordBankVote(NewVote(<<StackNextSlot + g>>, 0))
        /\ gaps' = gaps + 1
        /\ UNCHANGED <<disk, forks, aggregator>>

RecordSameSlot ==
    /\ tower.lockouts.votes # <<>>
    /\ RecordBankVote(NewVote(<<StackNextSlot - 1>>, 0))
    /\ UNCHANGED <<gaps, disk, forks, aggregator>>

NextStack == RecordNextSlot \/ RecordSkippingSlot \/ RecordSameSlot

SpecStack == InitStack /\ [][NextStack]_vars

\* --------------------------------------------------------------------------
\* SpecRoot: a fresh tower (Tower::new_for_tests) records slot 0 and then
\* increasing slots, as in test_collect_vote_lockouts_root; gaps counts the
\* slots that were skipped, so that the number of recorded slots is known.

RootRecordNextSlot ==
    /\ StackNextSlot <= DeepMaxSlot
    /\ RecordBankVote(NewVote(<<StackNextSlot>>, 0))
    /\ UNCHANGED <<gaps, disk, forks, aggregator>>

RootRecordSkippingSlot ==
    \E g \in 1..MaxSkipped :
        /\ tower.lockouts.votes # <<>>
        /\ gaps + g <= MaxSkipped
        /\ StackNextSlot + g <= DeepMaxSlot
        /\ RecordBankVote(NewVote(<<StackNextSlot + g>>, 0))
        /\ gaps' = gaps + g
        /\ UNCHANGED <<disk, forks, aggregator>>

RootRecordSameSlot ==
    /\ tower.lockouts.votes # <<>>
    /\ RecordBankVote(NewVote(<<StackNextSlot - 1>>, 0))
    /\ UNCHANGED <<gaps, disk, forks, aggregator>>

NextRoot == RootRecordNextSlot \/ RootRecordSkippingSlot \/ RootRecordSameSlot

SpecRoot == InitStack /\ [][NextRoot]_vars

----------------------------------------------------------------------------
(* Specification of the tower's lockout rule: votes for any slot (also an  *)
(* older one, and a vote without slots), lockout queries against any       *)
(* ancestor set.                                                            *)

Slots == 0..MaxSlot

\* The ancestor sets a bank at slot can have: earlier slots, the tower's
\* root among them (bank forks holds only descendants of the root).
AncestorSets(slot) ==
    {a \in SUBSET (0..(slot - 1)) :
        root(tower) = None \/ slot = root(tower) \/ root(tower) \in a}

InitLockout ==
    /\ tower = DefaultTower
    /\ ret = NoRet
    /\ gaps = 0
    /\ files = NoFiles
    /\ pc = Idle
    /\ progress = NoProgress
    /\ epoch_vote_accounts = <<>>
    /\ ServiceIdle

LockoutRecordVote ==
    /\ \E slot \in Slots : RecordBankVote(NewVote(<<slot>>, 0))
    /\ UNCHANGED <<gaps, disk, forks, aggregator>>

LockoutRecordEmptyVote ==
    /\ RecordBankVote(NewVote(<<>>, 0))
    /\ UNCHANGED <<gaps, disk, forks, aggregator>>

LockoutQuery ==
    /\ \E slot \in Slots : \E a \in AncestorSets(slot) : IsLockedOut(slot, a)
    /\ UNCHANGED <<gaps, disk, forks, aggregator>>

NextLockout == LockoutRecordVote \/ LockoutRecordEmptyVote \/ LockoutQuery

SpecLockout == InitLockout /\ [][NextLockout]_vars

----------------------------------------------------------------------------
(* Specification of the vote stake threshold: a tower of any small         *)
(* threshold depth, votes for any slot, and threshold checks against       *)
(* voted stakes that hold at most one slot's stake.                        *)

Stakes == 0..MaxStake

\* Tower::new_for_tests(threshold_depth, threshold_size)
new_for_tests(threshold_depth, threshold_size) ==
    [DefaultTower EXCEPT !.threshold_depth = threshold_depth,
                         !.threshold_size = threshold_size]

VotedStakesInputs ==
    {<<>>} \cup UNION {[{slot} -> Stakes] : slot \in Slots}

InitThreshold ==
    /\ \E depth \in 0..MaxDepth :
           tower = new_for_tests(depth, VOTE_THRESHOLD_SIZE)
    /\ ret = NoRet
    /\ gaps = 0
    /\ files = NoFiles
    /\ pc = Idle
    /\ progress = NoProgress
    /\ epoch_vote_accounts = <<>>
    /\ ServiceIdle

ThresholdRecordVote ==
    /\ ret.op # "check_vote_stake_threshold"
    /\ \E slot \in Slots : RecordBankVote(NewVote(<<slot>>, 0))
    /\ UNCHANGED <<gaps, disk, forks, aggregator>>

ThresholdQuery ==
    /\ ret.op # "check_vote_stake_threshold"
    /\ \E slot \in Slots : \E voted_stakes \in VotedStakesInputs :
       \E total_stake \in Stakes :
           CheckVoteStakeThreshold(slot, voted_stakes, total_stake)
    /\ UNCHANGED <<gaps, disk, forks, aggregator>>

ThresholdReturn ==
    /\ ret.op = "check_vote_stake_threshold"
    /\ Return
    /\ UNCHANGED <<gaps, disk, forks, aggregator>>

NextThreshold == ThresholdRecordVote \/ ThresholdQuery \/ ThresholdReturn

SpecThreshold == InitThreshold /\ [][NextThreshold]_vars

----------------------------------------------------------------------------
(* Specification of the restart: votes for any slot and the adjustment of  *)
(* the tower to the slot history of a replayed ledger.                     *)

ReplaySlots == 0..ReplayMaxSlot

\* The slot histories of the model: a window oldest..newest of slots and the
\* slots of the window that the replayed fork holds.
SlotHistories ==
    UNION {{[oldest |-> o, newest |-> n, found |-> f] :
               f \in SUBSET (o..n)} :
           o \in 0..MaxOldest, n \in ReplaySlots}

InitReplay ==
    /\ tower = DefaultTower
    /\ ret = NoRet
    /\ gaps = 0
    /\ files = NoFiles
    /\ pc = Idle
    /\ progress = NoProgress
    /\ epoch_vote_accounts = <<>>
    /\ ServiceIdle

ReplayRecordVote ==
    /\ \E slot \in ReplaySlots : RecordBankVote(NewVote(<<slot>>, 0))
    /\ UNCHANGED <<gaps, disk, forks, aggregator>>

ReplayRecordEmptyVote ==
    /\ RecordBankVote(NewVote(<<>>, 0))
    /\ UNCHANGED <<gaps, disk, forks, aggregator>>

ReplayAdjust ==
    /\ tower.stray_restored_slots = {}
    /\ \E h \in SlotHistories : \E r \in h.found :
           AdjustLockoutsAfterReplay(r, h)
    /\ UNCHANGED <<gaps, disk, forks, aggregator>>

NextReplay == ReplayRecordVote \/ ReplayRecordEmptyVote \/ ReplayAdjust

SpecReplay == InitReplay /\ [][NextReplay]_vars

\* --------------------------------------------------------------------------
\* SpecRootReplay: a tower that votes for increasing slots, deep enough to
\* promote roots, and is adjusted after a replay.  The replayed fork either
\* holds only slot 0 and its root ForkRoot (the slots between them were on a
\* fork that was abandoned) or every slot up to a root near the end of the
\* run.  The tower that is adjusted is one restored from its file, whose
\* stray_restored_slots are empty because the field is not serialized.

RootReplayHistories ==
    {[oldest |-> 0, newest |-> ForkRoot, found |-> {0, ForkRoot}],
     [oldest |-> 0, newest |-> DeepMaxSlot - 2, found |-> 0..(DeepMaxSlot - 2)]}

RootReplayRecordVote ==
    \E g \in 0..MaxSkipped :
        /\ gaps + g <= MaxSkipped
        /\ StackNextSlot + g <= DeepMaxSlot
        /\ RecordBankVote(NewVote(<<StackNextSlot + g>>, 0))
        /\ gaps' = gaps + g
        /\ UNCHANGED <<disk, forks, aggregator>>

RootReplayAdjust ==
    /\ tower.stray_restored_slots = {}
    /\ \E h \in RootReplayHistories :
           AdjustLockoutsAfterReplay(h.newest, h)
    /\ UNCHANGED <<gaps, disk, forks, aggregator>>

NextRootReplay == RootReplayRecordVote \/ RootReplayAdjust

SpecRootReplay == InitStack /\ [][NextRootReplay]_vars

----------------------------------------------------------------------------
(* Specification of the tower file: a validator that votes, saves its      *)
(* tower step by step, may crash at any step and boots from the file.      *)

PersistSlots == 0..PersistMaxSlot

InitPersist ==
    /\ \E k \in Nodes :
           /\ tower = Tower_new(pubkey(k))
           /\ pc = [Idle EXCEPT !.keypair = k]
    /\ ret = NoRet
    /\ gaps = 0
    /\ files = NoFiles
    /\ progress = NoProgress
    /\ epoch_vote_accounts = <<>>
    /\ ServiceIdle

PersistRecordVote ==
    /\ pc.at = "idle"
    /\ ret.op # "restore"
    /\ \E slot \in PersistSlots : RecordBankVote(NewVote(<<slot>>, 0))
    /\ UNCHANGED <<gaps, disk, forks, aggregator>>

PersistSaveBegin ==
    /\ \E k \in Nodes : SaveBegin(k)
    /\ UNCHANGED <<gaps, forks, aggregator>>

PersistSaveCreate == SaveCreate /\ UNCHANGED <<gaps, forks, aggregator>>

PersistSaveWrite == SaveWrite /\ UNCHANGED <<gaps, forks, aggregator>>

PersistSaveRename == SaveRename /\ UNCHANGED <<gaps, forks, aggregator>>

PersistCrash == Crash /\ UNCHANGED <<gaps, forks, aggregator>>

PersistRestore ==
    /\ \E k \in Nodes : Restore(k)
    /\ UNCHANGED <<gaps, forks, aggregator>>

PersistBoot == Boot /\ UNCHANGED <<gaps, forks, aggregator>>

PersistReturn ==
    /\ ret.op = "restore"
    /\ Return
    /\ UNCHANGED <<gaps, disk, forks, aggregator>>

NextPersist ==
    \/ PersistRecordVote
    \/ PersistSaveBegin
    \/ PersistSaveCreate
    \/ PersistSaveWrite
    \/ PersistSaveRename
    \/ PersistCrash
    \/ PersistRestore
    \/ PersistBoot
    \/ PersistReturn

SpecPersist == InitPersist /\ [][NextPersist]_vars

----------------------------------------------------------------------------
(* Specification of the tower file under interference: a validator that   *)
(* votes and saves its tower, while tower files are altered or put at      *)
(* another node's path.                                                    *)

TamperSlots == 0..TamperMaxSlot

TamperRecordVote ==
    /\ pc.at = "idle"
    /\ ret.op # "restore"
    /\ \E slot \in TamperSlots : RecordBankVote(NewVote(<<slot>>, 0))
    /\ UNCHANGED <<gaps, disk, forks, aggregator>>

TamperAlter ==
    /\ \E k \in Nodes : \E i \in 1..Len(files[get_filename(k)].content) :
       \E delta \in {-1, 1} :
           Tamper(k, i, delta)
    /\ UNCHANGED <<gaps, forks, aggregator>>

\* The towers another node may have saved: new, or with one vote.
ForeignTowers(k) ==
    {Tower_new(pubkey(k))}
        \cup {record_bank_vote(Tower_new(pubkey(k)),
                               NewVote(<<slot>>, 0)).tower :
                  slot \in TamperSlots}

TamperMisplace ==
    /\ \E from \in Nodes : \E to \in Nodes : \E t \in ForeignTowers(from) :
           Misplace(from, to, t)
    /\ UNCHANGED <<gaps, forks, aggregator>>

NextTamper ==
    \/ TamperRecordVote
    \/ PersistSaveBegin
    \/ PersistSaveCreate
    \/ PersistSaveWrite
    \/ PersistSaveRename
    \/ PersistRestore
    \/ PersistReturn
    \/ TamperAlter
    \/ TamperMisplace

SpecTamper == InitPersist /\ [][NextTamper]_vars

----------------------------------------------------------------------------
(* Specification of the switch-fork threshold: banks get their stats and   *)
(* lockout intervals, the tower votes on the forks, and the switch         *)
(* threshold is checked for any slot and total stake.                      *)

\* The stakes a vote account can have and the total stakes of the epoch:
\* 19/50 and 38/100 are exactly the threshold.
SwitchStakes == {1, 19}
SwitchTotals == {0, 50, 100}

\* The epoch's vote accounts: a stake for each, or for the first only.
EpochVoteAccounts ==
    [VoteAccounts -> SwitchStakes] \cup [{11} -> SwitchStakes]

\* Tower::new: the lockouts start from the root of the bank forks, if the
\* vote account exists.
InitSwitch ==
    /\ \E r \in {None, 1} :
           tower = [DefaultTower EXCEPT !.lockouts.root_slot = r]
    /\ ret = NoRet
    /\ gaps = 0
    /\ files = NoFiles
    /\ pc = Idle
    /\ progress = NoProgress
    /\ epoch_vote_accounts \in EpochVoteAccounts
    /\ ServiceIdle

\* The tower votes for a bank above its root whose stats are computed.
SwitchRecordVote ==
    /\ ret.op # "check_switch_threshold"
    /\ Len(tower.lockouts.votes) < SwitchMaxVotes
    /\ \E slot \in ForkSlots :
           /\ slot > vs_last_voted_slot(tower.lockouts)
           /\ slot > root(tower)
           /\ fork_stats_computed(progress, slot)
           /\ RecordBankVote(NewVote(<<slot>>, 0))
    /\ UNCHANGED <<gaps, disk, forks, aggregator>>

SwitchComputeBankStats ==
    /\ ret.op # "check_switch_threshold"
    /\ \E slot \in ForkSlots : \E intervals \in SUBSET BankIntervals(slot) :
           ComputeBankStats(slot, intervals)
    /\ UNCHANGED <<gaps, disk, aggregator>>

SwitchQuery ==
    /\ ret.op # "check_switch_threshold"
    /\ \E switch_slot \in ForkSlots : \E total_stake \in SwitchTotals :
           CheckSwitchThreshold(switch_slot, total_stake)
    /\ UNCHANGED <<gaps, disk, aggregator>>

SwitchReturn ==
    /\ ret.op = "check_switch_threshold"
    /\ Return
    /\ UNCHANGED <<gaps, disk, forks, aggregator>>

NextSwitch ==
    \/ SwitchRecordVote
    \/ SwitchComputeBankStats
    \/ SwitchQuery
    \/ SwitchReturn

SpecSwitch == InitSwitch /\ [][NextSwitch]_vars

\* --------------------------------------------------------------------------
\* SpecStray: the switch check of a tower that was restored and adjusted
\* after a replay and kept stray votes.  The bank forks are the same tree;
\* the tower voted before the restart for the slots of one of StrayStarts,
\* where MissingSlot is a child of the last bank that the bank forks do not
\* hold, and the replay ended at the given root.

MissingSlot == Len(Parent) + 1

StrayStarts ==
    {[votes |-> <<1, 2>>, replayed_root_slot |-> 0],
     [votes |-> <<Len(Parent), MissingSlot>>, replayed_root_slot |-> 1],
     [votes |-> <<MissingSlot>>, replayed_root_slot |-> 1]}

\* The tower of a start: the votes recorded before the restart, adjusted
\* with the slot history of the replayed root.
StrayTower(start) ==
    adjust_lockouts_after_replay(
        record_bank_vote(DefaultTower, NewVote(start.votes, 0)).tower,
        start.replayed_root_slot,
        [oldest |-> 0, newest |-> start.replayed_root_slot,
         found |-> 0..start.replayed_root_slot]).tower

InitStray ==
    /\ \E start \in StrayStarts : tower = StrayTower(start)
    /\ ret = NoRet
    /\ gaps = 0
    /\ files = NoFiles
    /\ pc = Idle
    /\ progress = NoProgress
    /\ epoch_vote_accounts \in EpochVoteAccounts
    /\ ServiceIdle

NextStray == SwitchComputeBankStats \/ SwitchQuery \/ SwitchReturn

SpecStray == InitStray /\ [][NextStray]_vars

----------------------------------------------------------------------------
(* Claims                                                                  *)

\* The lockouts of stack votes other than the one for slot whose slot is not
\* in the ancestor set.
NonAncestorVotes(votes, slot, slot_ancestors) ==
    {i \in DOMAIN votes :
        votes[i].slot # slot /\ votes[i].slot \notin slot_ancestors}

\* C1: is_locked_out(slot, ancestors) returns true iff slot is not greater
\* than the last voted slot or, after a simulated vote at slot on a copy of
\* the stack, a remaining lockout other than the simulated one has a slot
\* outside ancestors[slot]; otherwise it returns false.
C1_IsLockedOut ==
    ret.op = "is_locked_out" =>
        LET simulated == process_slot_vote_unchecked(tower.lockouts, ret.slot)
            not_newer == /\ vs_last_voted_slot(tower.lockouts) # None
                         /\ ret.slot <= vs_last_voted_slot(tower.lockouts)
            off_fork == NonAncestorVotes(simulated.votes, ret.slot,
                                         ret.ancestors) # {}
        IN  ret.result = IF not_newer \/ off_fork THEN "true" ELSE "false"

\* C1 witness: a slot newer than the last vote whose simulated vote expires
\* a lockout and which is still locked out by a vote off its fork.
C1_Witness ==
    /\ ret.op = "is_locked_out"
    /\ ret.result = "true"
    /\ tower.lockouts.votes # <<>>
    /\ ret.slot > vs_last_voted_slot(tower.lockouts)
    /\ Len(process_slot_vote_unchecked(tower.lockouts, ret.slot).votes)
           <= Len(tower.lockouts.votes)

\* C4 (as claimed): in every reachable tower state the last slot of
\* last_vote is the slot of the top lockout (both empty on a tower without
\* votes), and right after record_bank_vote(v) last_vote is v.
C4_LastVoteIsTop ==
    /\ last_voted_slot(tower) = vs_last_voted_slot(tower.lockouts)
    /\ ret.op = "record_bank_vote" =>
           /\ tower.last_vote = ret.vote
           /\ last_voted_slot(tower) = vote_last_voted_slot(ret.vote)

StrictlyIncreasing(votes) ==
    \A i \in DOMAIN votes : \A j \in DOMAIN votes :
        i < j => votes[i].slot < votes[j].slot

\* C9: the lockout stack holds at most 32 lockouts, with slots strictly
\* increasing from bottom to top.
C9_StackBounded ==
    /\ Len(tower.lockouts.votes) <= 32
    /\ StrictlyIncreasing(tower.lockouts.votes)

\* C9 witness: a full stack after its bottom vote was promoted to root.
C9_Witness ==
    /\ Len(tower.lockouts.votes) = 32
    /\ root(tower) # None
    /\ ret.op = "record_bank_vote"

\* C10: every lockout has 1 <= confirmation_count <= 32, a lockout at depth d
\* from the top (1-indexed) has confirmation_count >= d, and after a vote
\* for a new slot was applied the top lockout is that slot with
\* confirmation_count 1.
C10_ConfirmationCounts ==
    LET votes == tower.lockouts.votes
    IN  /\ \A i \in DOMAIN votes :
               /\ 1 <= votes[i].confirmation_count
               /\ votes[i].confirmation_count <= 32
               /\ votes[i].confirmation_count >= Len(votes) - i + 1
        /\ (/\ ret.op = "record_bank_vote"
            /\ ret.vote.slots # <<>>
            /\ Last(ret.vote.slots) > vs_last_voted_slot(ret.before))
           => Last(votes) = [slot |-> Last(ret.vote.slots),
                             confirmation_count |-> 1]

\* C10 witness: a vote applied to a stack whose bottom lockout has reached
\* 32 confirmations, after a vote that skipped slots.
C10_Witness ==
    /\ ret.op = "record_bank_vote"
    /\ Last(ret.vote.slots) > vs_last_voted_slot(ret.before)
    /\ tower.lockouts.votes[1].confirmation_count = 32
    /\ gaps > 0

\* The lockout threshold_depth positions below the top after a simulated
\* vote at the slot of the last threshold check.
ThresholdVote ==
    nth_recent_vote(process_slot_vote_unchecked(tower.lockouts, ret.slot),
                    tower.threshold_depth)

AlreadyInTower(l) == \E i \in DOMAIN tower.lockouts.votes :
                         tower.lockouts.votes[i] = l

StakeOver(slot) ==
    /\ slot \in DOMAIN ret.voted_stakes
    /\ ret.voted_stakes[slot] * tower.threshold_size.den
           > tower.threshold_size.num * ret.total_stake

\* C3 (as claimed): the check returns true if no lockout lies
\* threshold_depth below the top of the simulated stack, and otherwise true
\* iff that lockout's voted stake over total_stake exceeds threshold_size or
\* the lockout was in the tower with the same slot and confirmation_count.
C3_ThresholdAsClaimed ==
    ret.op = "check_vote_stake_threshold" =>
        ret.result = (\/ ThresholdVote = <<>>
                      \/ StakeOver(ThresholdVote[1].slot)
                      \/ AlreadyInTower(ThresholdVote[1]))

\* C3 (amended): ... and otherwise true iff voted_stakes has an entry for
\* that lockout's slot and either the entry over total_stake exceeds
\* threshold_size or the lockout was in the tower with the same slot and
\* confirmation_count.
C3_Threshold ==
    ret.op = "check_vote_stake_threshold" =>
        ret.result = (\/ ThresholdVote = <<>>
                      \/ /\ ThresholdVote[1].slot \in DOMAIN ret.voted_stakes
                         /\ \/ StakeOver(ThresholdVote[1].slot)
                            \/ AlreadyInTower(ThresholdVote[1]))

\* C3 witness: a check that passes below the threshold because the lockout
\* at the threshold depth was not changed by the simulated vote.
C3_Witness ==
    /\ ret.op = "check_vote_stake_threshold"
    /\ ret.result
    /\ ThresholdVote # <<>>
    /\ ~ StakeOver(ThresholdVote[1].slot)
    /\ AlreadyInTower(ThresholdVote[1])
    /\ tower.threshold_depth > 0

RECURSIVE SumStake(_)
SumStake(voters) ==
    IF voters = {} THEN 0
    ELSE LET v == CHOOSE x \in voters : TRUE
         IN  epoch_stake(epoch_vote_accounts, v) + SumStake(voters \ {v})

SwitchRoot == IF root(tower) = None THEN 0 ELSE root(tower)

\* The banks whose lockout intervals count against a switch: the latest
\* bank with computed stats of each fork, other than the last vote, its
\* descendants and the banks at or below the root.
CandidateBanks ==
    {b \in ForkSlots :
        /\ fork_stats_computed(progress, b)
        /\ \A d \in ForkSlots :
               b \in AncestorsOf(d) => ~ fork_stats_computed(progress, d)
        /\ b # last_voted_slot(tower)
        /\ last_voted_slot(tower) \notin AncestorsOf(b)
        /\ b > SwitchRoot}

\* The distinct vote accounts with a qualifying lockout interval in some
\* candidate bank: the interval ends at or after the last vote and starts
\* above the root on a slot that is not an ancestor of the last vote.
LockedOutVoters ==
    {v \in VoteAccounts :
        \E b \in CandidateBanks : \E iv \in progress[b].lockout_intervals :
            /\ iv.voter = v
            /\ iv.end >= last_voted_slot(tower)
            /\ iv.start \notin AncestorsOf(last_voted_slot(tower))
            /\ iv.start > SwitchRoot}

\* The switch slot of the last check is on a different fork from the last
\* vote: neither the last vote, nor a descendant, nor an ancestor of it.
OnDifferentFork ==
    /\ last_voted_slot(tower) # None
    /\ ret.switch_slot # last_voted_slot(tower)
    /\ last_voted_slot(tower) \notin AncestorsOf(ret.switch_slot)
    /\ ret.switch_slot \notin AncestorsOf(last_voted_slot(tower))

\* C2: when the switch slot is on a different fork from the last vote,
\* check_switch_threshold returns SwitchProof iff the epoch stake of the
\* distinct locked-out voters, each counted once, over total_stake is
\* strictly above 0.38, and FailedSwitchThreshold otherwise.
C2_SwitchThreshold ==
    (ret.op = "check_switch_threshold" /\ OnDifferentFork) =>
        ret.result = IF 100 * SumStake(LockedOutVoters)
                            > 38 * ret.total_stake
                     THEN "SwitchProof"
                     ELSE "FailedSwitchThreshold"

\* C2 witness: a check that fails the threshold although a locked-out
\* voter has two qualifying lockout intervals and twice its stake would
\* pass the threshold.
C2_Witness ==
    /\ ret.op = "check_switch_threshold"
    /\ OnDifferentFork
    /\ ret.result = "FailedSwitchThreshold"
    /\ ret.total_stake > 0
    /\ \E v \in LockedOutVoters :
           /\ epoch_stake(epoch_vote_accounts, v) > 0
           /\ Cardinality({x \in UNION {progress[b].lockout_intervals :
                                           b \in CandidateBanks} :
                              /\ x.voter = v
                              /\ x.end >= last_voted_slot(tower)
                              /\ x.start \notin
                                     AncestorsOf(last_voted_slot(tower))
                              /\ x.start > SwitchRoot}) >= 2
           /\ 100 * 2 * epoch_stake(epoch_vote_accounts, v)
                  > 38 * ret.total_stake

\* The tower file of the running validator restores to the tower it holds
\* in memory, the recorded votes included.
FileHoldsTower ==
    LET r == restore(files, tower.node_pubkey)
    IN  /\ r.status = "Ok"
        /\ r.tower.lockouts = tower.lockouts
        /\ r.tower.last_vote = tower.last_vote

\* C5 (as claimed): once record_bank_vote has returned, the tower file on
\* disk holds the tower state that includes the vote just recorded, so a
\* restore at that point yields that state.
C5_RecordPersists ==
    ret.op = "record_bank_vote" => FileHoldsTower

\* C5 (amended): record_bank_vote changes the tower in memory only; once a
\* save of that tower has returned Ok, the tower file on disk holds the
\* tower state that includes every vote recorded before the save, so a
\* restore at that point yields that state.
C5_SavePersists ==
    (ret.op = "save" /\ ret.status = "Ok") => FileHoldsTower

\* C5 witness: a save returned Ok for a tower that holds recorded votes and
\* replaced an earlier tower file.
C5_Witness ==
    /\ ret.op = "save"
    /\ ret.status = "Ok"
    /\ Len(tower.lockouts.votes) >= 2
    /\ tower.last_vote # DefaultVote
    /\ FileHoldsTower

\* The file at the final path of every node is absent or a complete saved
\* tower that restore accepts.
FinalPathsComplete(fs) ==
    \A k \in Nodes :
        fs[get_filename(k)].exists => restore(fs, k).status = "Ok"

\* C6: whatever step the process takes, a crash at any step of save
\* included, the final path keeps the file it held or, at the rename that
\* ends save, receives the complete signed new tower; so the final path
\* never holds a partially written tower and restore never reads one.
C6_SaveAtomic ==
    [][/\ \A k \in Nodes :
              \/ files'[get_filename(k)] = files[get_filename(k)]
              \/ /\ pc.at = "rename"
                 /\ tower.path = get_filename(k)
                 /\ files'[get_filename(k)] =
                        [exists |-> TRUE,
                         content |-> serialize_saved_tower(
                                         SavedTower_new(tower, pc.keypair))]
       /\ FinalPathsComplete(files')]_vars

\* C6 witness: the process crashed inside a save that had written part of
\* the new tower to the temporary file, and the restore that follows reads
\* the complete tower saved before.
C6_Witness ==
    /\ pc.at = "down"
    /\ ret.op = "restore"
    /\ ret.result.status = "Ok"
    /\ ret.result.tower.lockouts.votes # <<>>
    /\ LET tmp == files[get_tmp_filename(get_filename(ret.pubkey))]
       IN  /\ tmp.exists
           /\ Len(tmp.content) > 0
           /\ deserialize_saved_tower(tmp.content).status # "Ok"

\* C7: restore(path, pubkey) after a successful save(keypair) of the same
\* identity returns Ok and a tower equal to the saved one on node_pubkey,
\* threshold_depth, threshold_size, the vote state, last_vote and
\* last_timestamp.
C7_RestoreAfterSave ==
    (ret.op = "restore" /\ ret.after_save) =>
        /\ ret.result.status = "Ok"
        /\ ret.result.tower.node_pubkey = tower.node_pubkey
        /\ ret.result.tower.threshold_depth = tower.threshold_depth
        /\ ret.result.tower.threshold_size = tower.threshold_size
        /\ ret.result.tower.lockouts = tower.lockouts
        /\ ret.result.tower.last_vote = tower.last_vote
        /\ ret.result.tower.last_timestamp = tower.last_timestamp

\* C7 witness: a restore after the save of a tower with several votes, the
\* oldest of them confirmed more than once.
C7_Witness ==
    /\ ret.op = "restore"
    /\ ret.after_save
    /\ ret.result.status = "Ok"
    /\ Len(tower.lockouts.votes) >= 2
    /\ tower.lockouts.votes[1].confirmation_count >= 2
    /\ ret.result.tower.lockouts.votes = tower.lockouts.votes

\* The file at the path of node_pubkey reads as a saved tower whose
\* signature does not verify against node_pubkey over its data.
SignatureFails(fs, node_pubkey) ==
    LET f == fs[get_filename(node_pubkey)]
        saved == deserialize_saved_tower(f.content)
    IN  /\ f.exists
        /\ saved.status = "Ok"
        /\ ~ SavedTower_verify(saved.saved_tower, node_pubkey)

\* C8: restore returns InvalidSignature exactly when the stored signature
\* does not verify against the requested node pubkey over the stored data,
\* and then, as on every error, yields no tower; a file whose signature or
\* data was altered after save and a file saved by another node's keypair
\* are such files, and a tower that restore returns was signed by the
\* requested identity.
C8_InvalidSignature ==
    /\ ret.op = "restore" =>
           /\ (ret.result.status = "InvalidSignature")
                  = SignatureFails(files, ret.pubkey)
           /\ ret.result.status # "Ok" => "tower" \notin DOMAIN ret.result
           /\ ret.result.status = "Ok" =>
                  /\ ret.result.tower.node_pubkey = ret.pubkey
                  /\ files[get_filename(ret.pubkey)].content[1].signer
                         = ret.pubkey
    /\ (ret.op = "tamper" /\ (ret.index # 2 \/ ret.delta < 0)) =>
           restore(files, ret.pubkey).status = "InvalidSignature"
    /\ ret.op = "misplace" =>
           restore(files, ret.pubkey).status = "InvalidSignature"

\* C8 witness: restore returned InvalidSignature for a file that another
\* node's keypair signed.
C8_Witness ==
    /\ ret.op = "restore"
    /\ ret.result.status = "InvalidSignature"
    /\ files[get_filename(ret.pubkey)].content[1].signer \in Nodes
    /\ files[get_filename(ret.pubkey)].content[1].signer # ret.pubkey

\* The last operation recorded a vote for a slot newer than the last vote.
AppliedNewSlot ==
    /\ ret.op = "record_bank_vote"
    /\ ret.vote.slots # <<>>
    /\ Last(ret.vote.slots) > vs_last_voted_slot(ret.before)

\* The slots of the lockouts below the new top lockout after the vote, and
\* the slot that the vote promoted to root, if any.
SlotsBelowTop ==
    {tower.lockouts.votes[i].slot : i \in 1..(Len(tower.lockouts.votes) - 1)}
        \cup (IF ret.new_root = None THEN {} ELSE {ret.new_root})

\* C11 (as claimed): applying a vote at slot s pops every lockout whose
\* expiration slot is <= s and keeps the others, then pushes (s, 1).
C11_PopsExpiredInclusive ==
    AppliedNewSlot =>
        LET s == Last(ret.vote.slots)
            votes == ret.before.votes
        IN  /\ SlotsBelowTop =
                   {votes[i].slot : i \in
                       {j \in DOMAIN votes :
                           \/ votes[j].confirmation_count >= SlotBits
                           \/ expiration_slot(votes[j]) > s}}
            /\ Last(tower.lockouts.votes) = Lockout(s)

\* C11 (amended): applying a vote at slot s pops lockouts from the top of
\* the stack for as long as the top lockout's expiration slot is < s; a
\* lockout that expires exactly at s is kept, and so is every lockout below
\* a kept one; then (s, 1) is pushed.
C11_PopsExpired ==
    AppliedNewSlot =>
        LET s == Last(ret.vote.slots)
            votes == ret.before.votes
            in_force(j) == \/ votes[j].confirmation_count >= SlotBits
                           \/ expiration_slot(votes[j]) >= s
        IN  /\ SlotsBelowTop =
                   {votes[i].slot : i \in
                       {j \in DOMAIN votes :
                           \E k \in DOMAIN votes : k >= j /\ in_force(k)}}
            /\ Last(tower.lockouts.votes) = Lockout(s)

\* C11 witness: a vote at slot s that popped a lockout from the top and
\* kept one whose expiration slot is exactly s.
C11_Witness ==
    /\ AppliedNewSlot
    /\ ret.new_root = None
    /\ \E i \in DOMAIN ret.before.votes :
           /\ ret.before.votes[i].confirmation_count < SlotBits
           /\ expiration_slot(ret.before.votes[i]) = Last(ret.vote.slots)
           /\ ret.before.votes[i].slot \in SlotsBelowTop
    /\ \E i \in DOMAIN ret.before.votes :
           ret.before.votes[i].slot \notin SlotsBelowTop

\* --------------------------------------------------------------------------
\* Root promotion (SpecRoot).

\* The number of distinct slots recorded so far: every slot up to the last
\* voted one except the skipped ones.
RecordedSlots == StackNextSlot - gaps

\* record_bank_vote returned Some(root) exactly when root_slot changed.
ReturnsNewRootOnChange ==
    ret.op = "record_bank_vote" =>
        IF tower.lockouts.root_slot # ret.before.root_slot
        THEN ret.new_root # None /\ ret.new_root = tower.lockouts.root_slot
        ELSE ret.new_root = None

\* C12 (as claimed): after 33 distinct strictly-increasing slots were
\* recorded on a fresh tower the root is the first recorded slot (0 here),
\* promoted by exactly one call, and the stack holds 32 lockouts;
\* record_bank_vote returns Some(root) exactly on the calls that change
\* root_slot.
C12_RootAfter33Increasing ==
    /\ RecordedSlots < 33 => root(tower) = None
    /\ RecordedSlots = 33 =>
           /\ root(tower) = 0
           /\ Len(tower.lockouts.votes) = 32
    /\ ReturnsNewRootOnChange

\* C12 (amended): after 33 consecutive slots were recorded on a fresh tower
\* the root is the first recorded slot, no earlier call promoted a root, and
\* the stack holds 32 lockouts; record_bank_vote returns Some(root) exactly
\* on the calls that change root_slot, whatever slots were recorded.
C12_RootAfter33Consecutive ==
    /\ (gaps = 0 /\ RecordedSlots < 33) =>
           /\ root(tower) = None
           /\ ret.op = "record_bank_vote" => ret.new_root = None
    /\ (gaps = 0 /\ RecordedSlots = 33) =>
           /\ root(tower) = 0
           /\ Len(tower.lockouts.votes) = 32
           /\ (ret.vote.slots = <<32>> /\ vs_last_voted_slot(ret.before) = 31)
                  => ret.new_root = 0
    /\ ReturnsNewRootOnChange

\* C12 witness: the 33rd consecutive slot was just recorded and the call
\* returned the new root 0.
C12_Witness ==
    /\ gaps = 0
    /\ RecordedSlots = 33
    /\ ret.op = "record_bank_vote"
    /\ ret.vote.slots = <<32>>
    /\ ret.new_root = 0
    /\ ret.before.root_slot = None
    /\ Len(tower.lockouts.votes) = 32

\* --------------------------------------------------------------------------
\* Root monotonicity (SpecRootReplay).

\* C13 (as claimed): across record_bank_vote and
\* adjust_lockouts_after_replay calls Tower.root() never moves to a smaller
\* slot and never reverts from Some(slot) to None (None is below every
\* slot).
C13_RootMonotonic == [][root(tower') >= root(tower)]_vars

\* --------------------------------------------------------------------------
\* Switch threshold: the cases without a proof (SpecSwitch).

\* The tower has no last vote, or the switch slot of the last check is the
\* last voted slot or a descendant of it.
NoProofNeeded ==
    \/ last_voted_slot(tower) = None
    \/ ret.switch_slot = last_voted_slot(tower)
    \/ last_voted_slot(tower) \in AncestorsOf(ret.switch_slot)

\* C14: check_switch_threshold returns NoSwitch when the tower has no last
\* vote and when switch_slot is the last voted slot or a descendant of it,
\* and then the decision is the same for every progress map, total stake
\* and set of epoch vote accounts: no lockout interval or stake is
\* consulted.
C14_NoSwitch ==
    (ret.op = "check_switch_threshold" /\ NoProofNeeded) =>
        /\ ret.result = "NoSwitch"
        /\ \A total_stake \in SwitchTotals : \A accounts \in EpochVoteAccounts :
               \A progress_map \in {NoProgress, progress} :
                   check_switch_threshold(tower, ret.switch_slot,
                       bank_ancestors, bank_descendants, progress_map,
                       total_stake, accounts) = "NoSwitch"

\* C14 witness: a check for the last voted slot itself while another fork
\* holds lockout intervals that cover the last vote and whose stake passes
\* the threshold for a switch to that fork.
C14_Witness ==
    /\ ret.op = "check_switch_threshold"
    /\ last_voted_slot(tower) # None
    /\ ret.switch_slot = last_voted_slot(tower)
    /\ ret.result = "NoSwitch"
    /\ ret.total_stake > 0
    /\ \E other \in ForkSlots :
           check_switch_threshold(tower, other, bank_ancestors,
               bank_descendants, progress, ret.total_stake,
               epoch_vote_accounts) = "SwitchProof"

\* --------------------------------------------------------------------------
\* Switch threshold: which lockout intervals count (SpecSwitch).

\* locked_out_stake and locked_out_vote_accounts as the candidate loop of
\* check_switch_threshold leaves them for the tower and a progress map.
LockedOut(progress_map) ==
    scan_candidates(DOMAIN bank_descendants,
        [locked_out_stake |-> 0, locked_out_vote_accounts |-> {},
         panic |-> FALSE],
        last_voted_slot(tower), bank_ancestors[last_voted_slot(tower)],
        SwitchRootOf(tower), bank_ancestors, bank_descendants,
        [progress |-> progress_map,
         epoch_vote_accounts |-> epoch_vote_accounts])

\* The interval ends at or after the last vote and starts above the root on
\* a slot that is not an ancestor of the last vote.
Qualifies(iv) ==
    /\ iv.end >= last_voted_slot(tower)
    /\ iv.start > SwitchRoot
    /\ iv.start \notin AncestorsOf(last_voted_slot(tower))

\* The progress map without the intervals that do not qualify.
QualifyingOnly ==
    [b \in DOMAIN progress |->
        [progress[b] EXCEPT !.lockout_intervals = {iv \in @ : Qualifies(iv)}]]

CandidatesOnly ==
    [b \in DOMAIN progress |->
        IF b \in CandidateBanks THEN progress[b]
        ELSE [progress[b] EXCEPT !.lockout_intervals = {}]]

StrayCandidateBanks ==
    {b \in ForkSlots :
        /\ fork_stats_computed(progress, b)
        /\ \A d \in ForkSlots :
               b \in AncestorsOf(d) => ~ fork_stats_computed(progress, d)
        /\ b # last_voted_slot(tower)
        /\ last_voted_slot(tower) \notin AncestorsOf(b)
        /\ b > SwitchRoot}

\* The vote accounts with an interval in a candidate bank that covers the
\* last vote and starts above the root on a slot that is not a stray
\* restored slot.
StrayLockedOutVoters ==
    {v \in VoteAccounts :
        \E b \in StrayCandidateBanks :
            \E iv \in progress[b].lockout_intervals :
                /\ iv.voter = v
                /\ iv.end >= last_voted_slot(tower)
                /\ iv.start \notin tower.stray_restored_slots
                /\ iv.start > SwitchRoot}

\* The last voted slot is one of the stray restored slots.
StrayLastVote ==
    /\ last_voted_slot(tower) # None
    /\ last_voted_slot(tower) \in tower.stray_restored_slots

\* C17: when the last voted slot is a stray restored slot,
\* check_switch_threshold uses stray_restored_slots in place of the
\* ancestors of the last vote, whether or not the last voted slot is in the
\* ancestors map.  A check for a switch slot that is neither the last vote
\* nor a descendant of it decides by the stake of the vote accounts with a
\* covering interval that does not start at a stray restored slot; its
\* assertions on the ancestors of the last vote are made on the stray
\* restored slots too, and fail when the switch slot or a candidate bank is
\* one of them.
C17_StrayLastVote ==
    (/\ ret.op = "check_switch_threshold"
     /\ StrayLastVote
     /\ ret.switch_slot # last_voted_slot(tower)
     /\ last_voted_slot(tower) \notin AncestorsOf(ret.switch_slot)) =>
        ret.result =
            IF \/ ret.switch_slot \in tower.stray_restored_slots
               \/ StrayCandidateBanks \cap tower.stray_restored_slots # {}
            THEN "panic"
            ELSE IF 100 * SumStake(StrayLockedOutVoters)
                        > 38 * ret.total_stake
            THEN "SwitchProof"
            ELSE "FailedSwitchThreshold"

\* C17 witness: a stray last vote that is not in the ancestors map, and a
\* switch proof from intervals that start on another fork.
C17_Witness ==
    /\ ret.op = "check_switch_threshold"
    /\ StrayLastVote
    /\ last_voted_slot(tower) \notin DOMAIN bank_ancestors
    /\ ret.total_stake > 0
    /\ ret.result = "SwitchProof"
    /\ StrayLockedOutVoters # {}

\* --------------------------------------------------------------------------
\* Adjusting the lockouts after a replay (SpecReplay).

\* The last operation was adjust_lockouts_after_replay and it returned Ok.
AdjustOk ==
    /\ ret.op = "adjust_lockouts_after_replay"
    /\ ret.status = "Ok"

\* How the slot history of the last adjustment classifies a slot.
Classify(slot) ==
    IF slot > ret.slot_history.newest THEN "Future"
    ELSE IF slot < ret.slot_history.oldest THEN "TooOld"
    ELSE IF slot \in ret.slot_history.found THEN "Found"
    ELSE "NotFound"

\* The votes of the tower before the last adjustment, and the index of the
\* newest of them that the slot history holds (0 when it holds none).
VotesBefore == ret.before.lockouts.votes

NewestFound ==
    LET found == {i \in DOMAIN VotesBefore :
                     Classify(VotesBefore[i].slot) = "Found"}
    IN  IF found = {} THEN 0
        ELSE CHOOSE i \in found : \A j \in found : j <= i

\* C18 (as claimed): on success the retained votes are the votes classified
\* NotFound; every Future, Found or TooOld vote is removed.
C18_RetainsNotFoundOnly ==
    AdjustOk =>
        tower.lockouts.votes =
            retain(VotesBefore,
                   [i \in DOMAIN VotesBefore |->
                       Classify(VotesBefore[i].slot) = "NotFound"], 1)

\* C18 (amended): on success the retained votes are the votes newer than
\* the newest vote classified Found, all votes when none is Found.  Every
\* NotFound and every Future vote is retained, every Found vote is
\* removed, and a TooOld vote is removed only when a vote is Found.
C18_RetainsNewerThanFound ==
    AdjustOk =>
        /\ tower.lockouts.votes =
               SubSeq(VotesBefore, NewestFound + 1, Len(VotesBefore))
        /\ \A i \in DOMAIN VotesBefore :
               LET c == Classify(VotesBefore[i].slot)
                   kept == VotesBefore[i] \in SeqToSet(tower.lockouts.votes)
               IN  /\ c \in {"NotFound", "Future"} => kept
                   /\ c = "Found" => ~ kept
                   /\ c = "TooOld" => (kept <=> NewestFound = 0)

\* C18 witness: a successful adjustment that removes a Found vote and
\* retains a Future vote.
C18_Witness ==
    /\ AdjustOk
    /\ \E i \in DOMAIN VotesBefore :
           /\ Classify(VotesBefore[i].slot) = "Found"
           /\ VotesBefore[i] \notin SeqToSet(tower.lockouts.votes)
    /\ \E i \in DOMAIN VotesBefore :
           /\ Classify(VotesBefore[i].slot) = "Future"
           /\ VotesBefore[i] \in SeqToSet(tower.lockouts.votes)

\* C19: after a successful adjustment of a tower with votes, if a vote is
\* retained then root_slot is the replayed root, stray_restored_slots is
\* the set of the retained slots and last_vote, unchanged, names the top
\* retained slot; if none is retained then root_slot is None, last_vote is
\* the default vote and stray_restored_slots is empty.  A tower without
\* votes is returned unchanged.
C19_AdjustedTower ==
    AdjustOk =>
        IF VotesBefore = <<>> THEN tower = ret.before
        ELSE IF tower.lockouts.votes # <<>>
        THEN /\ tower.lockouts.root_slot = ret.replayed_root_slot
             /\ tower.stray_restored_slots =
                    {tower.lockouts.votes[i].slot :
                        i \in DOMAIN tower.lockouts.votes}
             /\ tower.last_vote = ret.before.last_vote
             /\ last_voted_slot(tower) = Last(tower.lockouts.votes).slot
        ELSE /\ tower.lockouts.root_slot = None
             /\ tower.last_vote = DefaultVote
             /\ tower.stray_restored_slots = {}

\* C19 witness: a successful adjustment that removed a vote and retained
\* two.
C19_Witness ==
    /\ AdjustOk
    /\ Len(tower.lockouts.votes) = 2
    /\ Len(VotesBefore) > 2
    /\ tower.lockouts.root_slot = ret.replayed_root_slot
    /\ Cardinality(tower.stray_restored_slots) = 2

AdjustScanned ==
    /\ ret.op = "adjust_lockouts_after_replay"
    /\ ret.status # "panic"
    /\ VotesBefore # <<>>
    /\ Classify(last_voted_slot(ret.before)) # "TooOld"

\* The votes, read from the newest to the oldest, are classified in the
\* order given: no vote has a class that comes earlier in the order than
\* the class of a newer vote.
ClassesInOrder(order) ==
    \A i \in DOMAIN VotesBefore : \A j \in DOMAIN VotesBefore :
        i < j => order[Classify(VotesBefore[i].slot)]
                     >= order[Classify(VotesBefore[j].slot)]

----------------------------------------------------------------------------
(* Unsigned integers wider than the checker's: a u64 is four and a u128    *)
(* eight 16-bit limbs, the least significant first.  Arithmetic wraps at   *)
(* the width of its operands.                                              *)

LimbBase == 2 ^ 16

\* Adds the carry c into the limbs from position i on; the carry out of
\* the last limb is lost.
RECURSIVE carry_from(_, _, _)
carry_from(limbs, i, c) ==
    IF i > Len(limbs) THEN limbs
    ELSE LET v == limbs[i] + c
         IN  carry_from([limbs EXCEPT ![i] = v % LimbBase], i + 1,
                        v \div LimbBase)

\* n as u64, n as u128, for n below 2^31
u64(n) == carry_from(<<n, 0, 0, 0>>, 1, 0)
u128(n) == carry_from(<<n, 0, 0, 0, 0, 0, 0, 0>>, 1, 0)

\* x as u128, for a u64 x
as_u128(x) == x \o <<0, 0, 0, 0>>

\* a + b
wide_add(a, b) == carry_from([i \in DOMAIN a |-> a[i] + b[i]], 1, 0)

\* a * k, for k below 2^15
wide_mul(a, k) == carry_from([i \in DOMAIN a |-> a[i] * k], 1, 0)

\* Lockout::lockout() in its u64 width: (INITIAL_LOCKOUT as u64).pow(
\* confirmation_count)
lockout_u64(l) ==
    [i \in 1..4 |->
        IF i = (l.confirmation_count \div 16) + 1
        THEN INITIAL_LOCKOUT ^ (l.confirmation_count % 16)
        ELSE 0]

\* Lockout::expiration_slot() in its u64 width
expiration_slot_u64(l) == wide_add(u64(l.slot), lockout_u64(l))

----------------------------------------------------------------------------
(* Vote lockout aggregation: Tower::collect_vote_lockouts                  *)

\* VoteState::from(account): the vote state the account data deserializes
\* to, as <<vote_state>>, or <<>> when the data is not a vote state.
VoteState_from(account) ==
    LET data == account.data
        n == Len(data)
    IN  IF n < 1 THEN <<>>
        ELSE LET nv == data[1]
                 p == 1 + 2 * nv
             IN  IF n < p + 1 \/ data[p + 1] \notin {0, 1} THEN <<>>
                 ELSE IF n < p + 1 + data[p + 1] THEN <<>>
                 ELSE <<[votes |-> [i \in 1..nv |->
                                      [slot |-> data[2 * i],
                                       confirmation_count |-> data[2 * i + 1]]],
                         root_slot |-> IF data[p + 1] = 1 THEN data[p + 2]
                                       ELSE None]>>

\* ComputedBankState before the first vote account.  lockout_intervals is
\* the set of the (expiration slot, voted slot, vote account) entries of
\* the interval tree; pubkey_votes is in the order of the vote accounts;
\* status becomes "panic" when the assertion of the function fails.
NoBankState ==
    [voted_stakes |-> <<>>, total_stake |-> 0, bank_weight |-> u128(0),
     lockout_intervals |-> {}, pubkey_votes |-> <<>>, status |-> "Ok"]

\* Tower::populate_ancestor_voted_stakes(voted_stakes, vote, ancestors)
populate_ancestor_voted_stakes(voted_stakes, vote, ancestors) ==
    IF vote.slot \notin DOMAIN ancestors THEN voted_stakes
    ELSE [slot \in DOMAIN voted_stakes \cup {vote.slot}
                       \cup ancestors[vote.slot] |->
             IF slot \in DOMAIN voted_stakes THEN voted_stakes[slot] ELSE 0]

\* The stake update that credits the voted slot alone.
update_ancestor_voted_stakes_slot_only(voted_stakes, voted_slot, voted_stake, ancestors) ==
    IF voted_slot \notin DOMAIN ancestors THEN voted_stakes
    ELSE [slot \in DOMAIN voted_stakes \cup {voted_slot} |->
             (IF slot \in DOMAIN voted_stakes THEN voted_stakes[slot] ELSE 0)
                 + (IF slot = voted_slot THEN voted_stake ELSE 0)]

\* Tower::update_ancestor_voted_stakes(voted_stakes, voted_slot,
\* voted_stake, ancestors)
update_ancestor_voted_stakes(voted_stakes, voted_slot, voted_stake, ancestors) ==
    IF voted_slot \notin DOMAIN ancestors THEN voted_stakes
    ELSE LET slot_with_ancestors == {voted_slot} \cup ancestors[voted_slot]
         IN  [slot \in DOMAIN voted_stakes \cup slot_with_ancestors |->
                 (IF slot \in DOMAIN voted_stakes THEN voted_stakes[slot]
                  ELSE 0)
                     + (IF slot \in slot_with_ancestors THEN voted_stake
                        ELSE 0)]

\* The root lockout with the confirmation count of a fresh vote.
root_lockout_initial(root_slot) == Lockout(root_slot)

\* Lockout { confirmation_count: MAX_LOCKOUT_HISTORY, slot: root }
root_lockout(root_slot) ==
    [slot |-> root_slot, confirmation_count |-> MAX_LOCKOUT_HISTORY]

\* bank_weight += vote.lockout() as u128 * voted_stake as u128, then
\* populate_ancestor_voted_stakes for the vote
weigh_vote(state, vote, voted_stake, ancestors) ==
    [state EXCEPT
        !.bank_weight =
            wide_add(@, wide_mul(as_u128(lockout_u64(vote)), voted_stake)),
        !.voted_stakes = populate_ancestor_voted_stakes(@, vote, ancestors)]

\* for vote in &vote_state.votes, after the simulated vote
RECURSIVE weigh_votes(_, _, _, _)
weigh_votes(state, votes, voted_stake, ancestors) ==
    IF votes = <<>> THEN state
    ELSE weigh_votes(weigh_vote(state, Head(votes), voted_stake, ancestors),
                     Tail(votes), voted_stake, ancestors)

\* The skip that lets accounts without stake through.
skip_account_invalid_only(voted_stake, vote_state) == vote_state = <<>>

\* The two `continue`s of the loop: an account without stake, or whose data
\* is not a vote state, is passed over.
skip_account(voted_stake, vote_state) ==
    voted_stake = 0 \/ vote_state = <<>>

\* The body of the loop of collect_vote_lockouts for one vote account.
collect_vote_account(state, key, voted_stake, account, bank_slot, ancestors) ==
    IF state.status = "panic" THEN state
    ELSE IF skip_account(voted_stake, VoteState_from(account)) THEN state
    ELSE
        LET start == VoteState_from(account)[1]
            start_root == start.root_slot
            vote_state == process_slot_vote_unchecked(start, bank_slot)
            listed ==
                [state EXCEPT
                    !.lockout_intervals = @ \cup
                        {[end |-> expiration_slot_u64(start.votes[i]),
                          start |-> start.votes[i].slot,
                          voter |-> key] : i \in DOMAIN start.votes},
                    !.pubkey_votes =
                        IF vs_last_voted_slot(start) # None
                        THEN Append(@, <<key, vs_last_voted_slot(start)>>)
                        ELSE @]
            weighed == weigh_votes(listed, vote_state.votes, voted_stake,
                                   ancestors)
            old_root ==
                IF start_root # vote_state.root_slot /\ start_root # None
                THEN weigh_vote(weighed, root_lockout(start_root),
                                voted_stake, ancestors)
                ELSE weighed
            new_root ==
                IF vote_state.root_slot # None
                THEN weigh_vote(old_root, root_lockout(vote_state.root_slot),
                                voted_stake, ancestors)
                ELSE old_root
            newest == nth_recent_vote(vote_state, 0)
            previous == nth_recent_vote(vote_state, 1)
        IN  IF newest = <<>> \/ newest[1].slot # bank_slot
            THEN [new_root EXCEPT !.status = "panic"]
            ELSE [(IF previous = <<>> THEN new_root
                   ELSE [new_root EXCEPT
                            !.voted_stakes =
                                update_ancestor_voted_stakes(@,
                                    previous[1].slot, voted_stake,
                                    ancestors)])
                  EXCEPT !.total_stake = @ + voted_stake]

\* Tower::collect_vote_lockouts(node_pubkey, bank_slot, vote_accounts,
\* ancestors, all_pubkeys): vote_accounts is the sequence of the
\* [key, stake, account] the iterator yields; node_pubkey only selects what
\* is logged and all_pubkeys only interns the keys.
RECURSIVE collect_from(_, _, _, _)
collect_from(state, vote_accounts, bank_slot, ancestors) ==
    IF vote_accounts = <<>> THEN state
    ELSE LET a == Head(vote_accounts)
         IN  collect_from(collect_vote_account(state, a.key, a.stake,
                                               a.account, bank_slot,
                                               ancestors),
                          Tail(vote_accounts), bank_slot, ancestors)

collect_vote_lockouts(bank_slot, vote_accounts, ancestors) ==
    collect_from(NoBankState, vote_accounts, bank_slot, ancestors)

CollectVoteLockouts(bank_slot, vote_accounts, ancestors) ==
    /\ ret' = [op |-> "collect_vote_lockouts", bank_slot |-> bank_slot,
               vote_accounts |-> vote_accounts, ancestors |-> ancestors,
               state |-> collect_vote_lockouts(bank_slot, vote_accounts,
                                               ancestors)]
    /\ UNCHANGED tower

----------------------------------------------------------------------------
(* Specification of the vote lockout aggregation: a bank of a fork tree    *)
(* whose slots 1 and 2 both descend from 0 and whose other slots continue  *)
(* from 2, with at most two vote accounts.  A vote account holds no stake  *)
(* or some, and data that is a vote state or not; a vote state comes from  *)
(* votes along one fork, a few of them or enough to have a root.           *)

CollectMaxStake == 2
CollectShallowSlot == 3

CollectSlots == 0..DeepMaxSlot

\* The banks whose votes are collected: the first ones and the last ones.
CollectBankSlots ==
    (1..(CollectShallowSlot + 1)) \cup ((DeepMaxSlot - 1)..DeepMaxSlot)

CollectParent(slot) == IF slot = 2 THEN 0 ELSE slot - 1

RECURSIVE CollectAncestorsOf(_)
CollectAncestorsOf(slot) ==
    IF slot = 0 THEN {}
    ELSE {CollectParent(slot)} \cup CollectAncestorsOf(CollectParent(slot))

\* BankForks::ancestors() when the root of the bank forks is root: the
\* banks at or above the root, each with its ancestors from the root on.
collect_ancestors(root_slot) ==
    [slot \in {s \in CollectSlots :
                   s = root_slot \/ root_slot \in CollectAncestorsOf(s)} |->
        {a \in CollectAncestorsOf(slot) : a >= root_slot}]

\* The first n slots of the fork that continues from slot 2.
MainFork(n) == [i \in 1..n |-> IF i = 1 THEN 0 ELSE i]

\* The increasing sequences of the slots 0..top that lie on one fork.
RECURSIVE ForkVotes(_)
ForkVotes(top) ==
    IF top < 0 THEN {<<>>}
    ELSE ForkVotes(top - 1) \cup
         {Append(votes, top) : votes \in
              {v \in ForkVotes(top - 1) :
                   \A i \in DOMAIN v : v[i] \in CollectAncestorsOf(top)}}

CollectVotes ==
    ForkVotes(CollectShallowSlot)
        \cup {MainFork(n) : n \in MAX_LOCKOUT_HISTORY..(DeepMaxSlot - 2)}

\* The account data of a vote state, and data that is none: no data, or
\* the data of a vote state cut short.
CollectAccounts ==
    {[data |-> serialize_vote_state(process_slots(DefaultVoteState, votes))] :
         votes \in CollectVotes}
        \cup {[data |-> <<>>], [data |-> <<1, 0>>]}

CollectVoteAccounts ==
    LET entries(key) ==
            {[key |-> key, stake |-> stake, account |-> account] :
                 stake \in 0..CollectMaxStake, account \in CollectAccounts}
    IN  {<<>>}
            \cup {<<a>> : a \in entries(11) \cup entries(12)}
            \cup {<<a, b>> : a \in entries(11), b \in entries(12)}
            \cup {<<b, a>> : a \in entries(11), b \in entries(12)}

\* The newest slot a vote account of the bank has voted for.
NewestVote(vote_accounts) ==
    LET voted == {vs_last_voted_slot(VoteState_from(vote_accounts[i].account)[1]) :
                      i \in {j \in DOMAIN vote_accounts :
                                 VoteState_from(vote_accounts[j].account) # <<>>}}
    IN  IF voted = {} THEN None ELSE CHOOSE s \in voted : \A t \in voted : t <= s

CollectQuery ==
    /\ ret.op # "collect_vote_lockouts"
    /\ \E ancestors \in {collect_ancestors(root_slot) : root_slot \in {0, 2}} :
       \E vote_accounts \in CollectVoteAccounts :
       \E bank_slot \in CollectBankSlots :
           /\ bank_slot \in DOMAIN ancestors
           /\ bank_slot > NewestVote(vote_accounts)
           /\ CollectVoteLockouts(bank_slot, vote_accounts, ancestors)
    /\ UNCHANGED <<gaps, disk, forks, aggregator>>

CollectReturn ==
    /\ ret.op = "collect_vote_lockouts"
    /\ Return
    /\ UNCHANGED <<gaps, disk, forks, aggregator>>

NextCollect == CollectQuery \/ CollectReturn

SpecCollect == InitStack /\ [][NextCollect]_vars

\* --------------------------------------------------------------------------
\* The vote accounts that collect_vote_lockouts passes over (SpecCollect).

\* The last operation collected the vote lockouts of a bank.
Collected == ret.op = "collect_vote_lockouts" /\ ret.state.status = "Ok"

\* The vote account at position i has stake and data that is a vote state.
Counted(i) ==
    /\ ret.vote_accounts[i].stake > 0
    /\ VoteState_from(ret.vote_accounts[i].account) # <<>>

RECURSIVE StakeOf(_, _)
StakeOf(vote_accounts, positions) ==
    IF positions = {} THEN 0
    ELSE LET i == CHOOSE x \in positions : TRUE
         IN  vote_accounts[i].stake + StakeOf(vote_accounts, positions \ {i})

\* The vote accounts of the last operation without the ones passed over.
CountedAccounts ==
    LET RECURSIVE Keep(_)
        Keep(accounts) ==
            IF accounts = <<>> THEN <<>>
            ELSE IF /\ Head(accounts).stake > 0
                    /\ VoteState_from(Head(accounts).account) # <<>>
                 THEN <<Head(accounts)>> \o Keep(Tail(accounts))
                 ELSE Keep(Tail(accounts))
    IN  Keep(ret.vote_accounts)

\* C22: a vote account without stake, or whose data is not a vote state, is
\* passed over without failing: the computed bank state is the one of the
\* remaining vote accounts, none of its lockout intervals and pubkey votes
\* names a passed-over account, and total_stake is the sum of the stakes of
\* the remaining accounts.
C22_SkipsUncounted ==
    ret.op = "collect_vote_lockouts" =>
        /\ ret.state.status = "Ok"
        /\ ret.state = collect_vote_lockouts(ret.bank_slot, CountedAccounts,
                                             ret.ancestors)
        /\ \A i \in DOMAIN ret.vote_accounts :
               ~Counted(i) =>
                   /\ \A iv \in ret.state.lockout_intervals :
                          iv.voter # ret.vote_accounts[i].key
                   /\ \A j \in DOMAIN ret.state.pubkey_votes :
                          ret.state.pubkey_votes[j][1]
                              # ret.vote_accounts[i].key
        /\ ret.state.total_stake =
               StakeOf(ret.vote_accounts,
                       {i \in DOMAIN ret.vote_accounts : Counted(i)})
        /\ (\A i \in DOMAIN ret.vote_accounts : ~Counted(i)) =>
               ret.state = NoBankState

\* C22 witness: a bank with a vote account that has votes and no stake, or
\* stake and no vote state, next to a counted vote account.
C22_Witness ==
    /\ Collected
    /\ Len(ret.vote_accounts) = 2
    /\ \E i \in DOMAIN ret.vote_accounts : \E j \in DOMAIN ret.vote_accounts :
           /\ Counted(i)
           /\ ~Counted(j)
           /\ ret.vote_accounts[j].stake > 0
                  \/ ret.vote_accounts[j].account.data # <<>>
    /\ ret.state.total_stake > 0
    /\ ret.state.pubkey_votes # <<>>

\* --------------------------------------------------------------------------
\* The voted stakes that collect_vote_lockouts computes (SpecCollect).

\* The newest vote of the vote account at position i that has not expired
\* at the bank slot, as <<slot>>, or <<>> when the account has none.
NewestRealVote(i) ==
    LET votes == VoteState_from(ret.vote_accounts[i].account)[1].votes
        kept == pop_expired_votes(votes, ret.bank_slot)
    IN  IF kept = <<>> THEN <<>> ELSE <<Last(kept).slot>>

\* The counted vote accounts whose newest real vote is at the slot or at a
\* descendant of the slot.
VotersFor(slot) ==
    {i \in DOMAIN ret.vote_accounts :
        /\ Counted(i)
        /\ NewestRealVote(i) # <<>>
        /\ NewestRealVote(i)[1] \in DOMAIN ret.ancestors
        /\ \/ NewestRealVote(i)[1] = slot
           \/ slot \in ret.ancestors[NewestRealVote(i)[1]]}

\* C23: voted_stakes[s] is the sum of the stakes of the counted voters
\* whose newest real vote left on the stack by the simulated vote is at s
\* or at a descendant of s; a slot of the ancestors map without an entry
\* has no such voter, and the bank slot gets no stake.
C23_VotedStakes ==
    Collected =>
        /\ \A slot \in DOMAIN ret.state.voted_stakes :
               ret.state.voted_stakes[slot]
                   = StakeOf(ret.vote_accounts, VotersFor(slot))
        /\ \A slot \in DOMAIN ret.ancestors \ DOMAIN ret.state.voted_stakes :
               VotersFor(slot) = {}
        /\ ret.bank_slot \in DOMAIN ret.state.voted_stakes =>
               ret.state.voted_stakes[ret.bank_slot] = 0

\* C23 witness: two counted voters on different forks, one of them with
\* its newest vote expired at the bank slot; the slot both forks descend
\* from holds the stake of both, and the bank slot has an entry.
C23_Witness ==
    /\ Collected
    /\ ret.bank_slot \in DOMAIN ret.state.voted_stakes
    /\ \E i \in DOMAIN ret.vote_accounts : \E j \in DOMAIN ret.vote_accounts :
           /\ Counted(i) /\ Counted(j)
           /\ NewestRealVote(i) # <<>> /\ NewestRealVote(j) # <<>>
           /\ NewestRealVote(i)[1] # vs_last_voted_slot(
                  VoteState_from(ret.vote_accounts[i].account)[1])
           /\ NewestRealVote(j)[1] \in DOMAIN ret.state.voted_stakes
           /\ NewestRealVote(i)[1] \in ret.ancestors[NewestRealVote(j)[1]]
           /\ ret.state.voted_stakes[NewestRealVote(j)[1]]
                  = ret.vote_accounts[j].stake
           /\ ret.state.voted_stakes[NewestRealVote(i)[1]]
                  = ret.vote_accounts[i].stake + ret.vote_accounts[j].stake

\* --------------------------------------------------------------------------
\* The bank weight that collect_vote_lockouts computes (SpecCollect).

\* 2^e as a 128-bit value
Pow2(e) == [i \in 1..8 |-> IF i = (e \div 16) + 1 THEN 2 ^ (e % 16) ELSE 0]

\* The vote state of the vote account at position i, before and after the
\* simulated vote at the bank slot.
StateBefore(i) == VoteState_from(ret.vote_accounts[i].account)[1]
StateAfter(i) == process_slot_vote_unchecked(StateBefore(i), ret.bank_slot)

\* The simulated vote gave the vote account at position i a root in place
\* of the one it had.
RootReplaced(i) ==
    /\ StateBefore(i).root_slot # None
    /\ StateAfter(i).root_slot # StateBefore(i).root_slot

\* Limb k of the sum of 2^confirmation_count over the votes, before the
\* carries.
LimbSum(votes, k) ==
    LET sum[n \in 0..Len(votes)] ==
            IF n = 0 THEN 0
            ELSE sum[n - 1] + Pow2(votes[n].confirmation_count)[k]
    IN  sum[Len(votes)]

\* The weight of one unit of stake of the vote account at position i.
VoterWeight(i) ==
    LET after == StateAfter(i)
        roots == (IF after.root_slot # None THEN 1 ELSE 0)
                     + (IF RootReplaced(i) THEN 1 ELSE 0)
    IN  carry_from([k \in 1..8 |->
                       LimbSum(after.votes, k)
                           + roots * Pow2(MAX_LOCKOUT_HISTORY)[k]], 1, 0)

RECURSIVE WeightOf(_)
WeightOf(positions) ==
    IF positions = {} THEN u128(0)
    ELSE LET i == CHOOSE x \in positions : TRUE
         IN  wide_add(wide_mul(VoterWeight(i), ret.vote_accounts[i].stake),
                      WeightOf(positions \ {i}))

\* C24: bank_weight is the 128-bit sum over the counted voters of the stake
\* times the sum of 2^confirmation_count over the stack after the simulated
\* vote, plus 2^32 for the root after the simulated vote, plus 2^32 more
\* when the simulated vote replaced a root.
C24_BankWeight ==
    Collected =>
        ret.state.bank_weight
            = WeightOf({i \in DOMAIN ret.vote_accounts : Counted(i)})

\* C24 witness: two counted voters, the simulated vote replacing the root
\* of one and giving the other its first root.
C24_Witness ==
    /\ Collected
    /\ \E i \in DOMAIN ret.vote_accounts : \E j \in DOMAIN ret.vote_accounts :
           /\ Counted(i) /\ Counted(j)
           /\ RootReplaced(i)
           /\ StateBefore(j).root_slot = None
           /\ StateAfter(j).root_slot # None
    /\ ret.state.bank_weight[3] > 0

----------------------------------------------------------------------------
(* Commitment aggregation (core/src/commitment.rs)                         *)

\* BlockCommitment::default(): the stake at each confirmation count
\* 1..MAX_LOCKOUT_HISTORY, and the rooted stake after them.
DefaultBlockCommitment == [i \in 1..(MAX_LOCKOUT_HISTORY + 1) |-> 0]

\* BlockCommitment::increase_confirmation_stake(confirmation_count, stake)
increase_confirmation_stake(block_commitment, confirmation_count, stake) ==
    [block_commitment EXCEPT ![confirmation_count] = @ + stake]

\* BlockCommitment::increase_rooted_stake(stake)
increase_rooted_stake(block_commitment, stake) ==
    [block_commitment EXCEPT ![MAX_LOCKOUT_HISTORY + 1] = @ + stake]

\* BlockCommitment::get_rooted_stake()
get_rooted_stake(block_commitment) ==
    block_commitment[MAX_LOCKOUT_HISTORY + 1]

\* commitment.entry(slot).or_insert_with(BlockCommitment::default), changed
\* by one of the two increases
with_entry(commitment, slot, block_commitment) ==
    [s \in DOMAIN commitment \cup {slot} |->
        IF s = slot THEN block_commitment ELSE commitment[s]]

entry_or_default(commitment, slot) ==
    IF slot \in DOMAIN commitment THEN commitment[slot]
    ELSE DefaultBlockCommitment

\* The first loop crediting only the ancestors below the root.
RECURSIVE scan_rooted_below(_, _, _, _, _)
scan_rooted_below(commitment, ancestors, i, root_slot, lamports) ==
    IF i > Len(ancestors)
    THEN [commitment |-> commitment, ancestors_index |-> 1]
    ELSE IF ancestors[i] < root_slot
    THEN scan_rooted_below(
             with_entry(commitment, ancestors[i],
                        increase_rooted_stake(
                            entry_or_default(commitment, ancestors[i]),
                            lamports)),
             ancestors, i + 1, root_slot, lamports)
    ELSE [commitment |-> commitment, ancestors_index |-> i]

\* The first loop over the ancestors, from position i: the rooted stake of
\* the ancestors up to the root, and ancestors_index, which is the position
\* of the first ancestor above the root and stays at the first position
\* when there is none.
RECURSIVE scan_rooted(_, _, _, _, _)
scan_rooted(commitment, ancestors, i, root_slot, lamports) ==
    IF i > Len(ancestors)
    THEN [commitment |-> commitment, ancestors_index |-> 1]
    ELSE IF ancestors[i] <= root_slot
    THEN scan_rooted(
             with_entry(commitment, ancestors[i],
                        increase_rooted_stake(
                            entry_or_default(commitment, ancestors[i]),
                            lamports)),
             ancestors, i + 1, root_slot, lamports)
    ELSE [commitment |-> commitment, ancestors_index |-> i]

\* The slots of a map in ascending order.
RECURSIVE Ascending(_)
Ascending(slots) ==
    IF slots = {} THEN <<>>
    ELSE LET least == CHOOSE s \in slots : \A t \in slots : s <= t
         IN  <<least>> \o Ascending(slots \ {least})

\* The loop over rooted_stake.iter_mut(), from position i of its keys: the
\* stakes of the smaller roots grow, and insert_amount takes the stake of
\* the first greater root.
RECURSIVE scan_rooted_stake(_, _, _, _, _, _)
scan_rooted_stake(rooted_stake, slots, i, root_slot, lamports, insert_amount) ==
    IF i > Len(slots)
    THEN [rooted_stake |-> rooted_stake, insert_amount |-> insert_amount]
    ELSE IF slots[i] < root_slot
    THEN scan_rooted_stake([rooted_stake EXCEPT ![slots[i]] = @ + lamports],
                           slots, i + 1, root_slot, lamports, insert_amount)
    ELSE IF slots[i] > root_slot
    THEN [rooted_stake |-> rooted_stake,
          insert_amount |-> insert_amount + rooted_stake[slots[i]]]
    ELSE scan_rooted_stake(rooted_stake, slots, i + 1, root_slot, lamports,
                           insert_amount)

\* The roll-up that inserts a new root with the stake of its account alone.
roll_up_rooted_stake_alone(rooted_stake, root_slot, lamports) ==
    LET scanned == scan_rooted_stake(rooted_stake,
                                     Ascending(DOMAIN rooted_stake), 1,
                                     root_slot, lamports, lamports)
    IN  [s \in DOMAIN rooted_stake \cup {root_slot} |->
            IF s # root_slot THEN scanned.rooted_stake[s]
            ELSE IF s \in DOMAIN rooted_stake
                 THEN scanned.rooted_stake[s] + lamports
                 ELSE lamports]

\* The update of rooted_stake for a vote account with a root: the scan,
\* then rooted_stake.entry(root).and_modify(..).or_insert(insert_amount).
roll_up_rooted_stake(rooted_stake, root_slot, lamports) ==
    LET scanned == scan_rooted_stake(rooted_stake,
                                     Ascending(DOMAIN rooted_stake), 1,
                                     root_slot, lamports, lamports)
    IN  [s \in DOMAIN rooted_stake \cup {root_slot} |->
            IF s # root_slot THEN scanned.rooted_stake[s]
            ELSE IF s \in DOMAIN rooted_stake
                 THEN scanned.rooted_stake[s] + lamports
                 ELSE scanned.insert_amount]

\* The scan of the votes that credits every ancestor an account has voted
\* at or above with the newest of those votes.
RECURSIVE scan_votes_newest(_, _, _, _, _, _)
scan_votes_newest(commitment, votes, v, ancestors, ancestors_index, lamports) ==
    IF v > Len(votes) THEN commitment
    ELSE IF ancestors[ancestors_index] <= votes[v].slot
    THEN LET credited ==
                 with_entry(commitment, ancestors[ancestors_index],
                     increase_confirmation_stake(
                         entry_or_default(commitment,
                                          ancestors[ancestors_index]),
                         Last(votes).confirmation_count, lamports))
         IN  IF ancestors_index + 1 > Len(ancestors) THEN credited
             ELSE scan_votes_newest(credited, votes, v, ancestors,
                                    ancestors_index + 1, lamports)
    ELSE scan_votes_newest(commitment, votes, v + 1, ancestors,
                           ancestors_index, lamports)

\* for vote in &vote_state.votes, from the vote at position v: while the
\* ancestor at ancestors_index is not above the vote it is credited at the
\* confirmation count of the vote; the function returns at the end of the
\* ancestors.
RECURSIVE scan_votes(_, _, _, _, _, _)
scan_votes(commitment, votes, v, ancestors, ancestors_index, lamports) ==
    IF v > Len(votes) THEN commitment
    ELSE IF ancestors[ancestors_index] <= votes[v].slot
    THEN LET credited ==
                 with_entry(commitment, ancestors[ancestors_index],
                     increase_confirmation_stake(
                         entry_or_default(commitment,
                                          ancestors[ancestors_index]),
                         votes[v].confirmation_count, lamports))
         IN  IF ancestors_index + 1 > Len(ancestors) THEN credited
             ELSE scan_votes(credited, votes, v, ancestors,
                             ancestors_index + 1, lamports)
    ELSE scan_votes(commitment, votes, v + 1, ancestors, ancestors_index,
                    lamports)

\* AggregateCommitmentService::aggregate_commitment_for_vote_account(
\* commitment, rooted_stake, vote_state, ancestors, lamports), for a
\* non-empty ancestors; aggregate is [commitment, rooted_stake].
aggregate_commitment_for_vote_account(aggregate, vote_state, ancestors, lamports) ==
    LET rooted ==
            IF vote_state.root_slot = None
            THEN [commitment |-> aggregate.commitment, ancestors_index |-> 1]
            ELSE scan_rooted(aggregate.commitment, ancestors, 1,
                             vote_state.root_slot, lamports)
    IN  [commitment |-> scan_votes(rooted.commitment, vote_state.votes, 1,
                                   ancestors, rooted.ancestors_index,
                                   lamports),
         rooted_stake |->
             IF vote_state.root_slot = None THEN aggregate.rooted_stake
             ELSE roll_up_rooted_stake(aggregate.rooted_stake,
                                       vote_state.root_slot, lamports)]

\* The loop of aggregate_commitment over bank.vote_accounts(), in the
\* order the map yields them.
RECURSIVE aggregate_from(_, _, _)
aggregate_from(aggregate, vote_accounts, ancestors) ==
    IF vote_accounts = <<>> THEN aggregate
    ELSE LET a == Head(vote_accounts)
             vote_state == VoteState_from(a.account)
         IN  aggregate_from(
                 IF a.stake = 0 \/ vote_state = <<>> THEN aggregate
                 ELSE aggregate_commitment_for_vote_account(
                          aggregate, vote_state[1], ancestors, a.stake),
                 Tail(vote_accounts), ancestors)

\* AggregateCommitmentService::aggregate_commitment(ancestors, bank): the
\* commitment of each slot and the rooted stake, or a panic when ancestors
\* is empty or not ascending.
aggregate_commitment(ancestors, vote_accounts) ==
    IF \/ ancestors = <<>>
       \/ \E i \in 1..(Len(ancestors) - 1) : ancestors[i] >= ancestors[i + 1]
    THEN [status |-> "panic", commitment |-> <<>>, rooted_stake |-> <<>>]
    ELSE LET aggregate ==
                 aggregate_from([commitment |-> <<>>, rooted_stake |-> <<>>],
                                vote_accounts, ancestors)
         IN  [status |-> "Ok", commitment |-> aggregate.commitment,
              rooted_stake |-> aggregate.rooted_stake]

AggregateCommitment(ancestors, vote_accounts) ==
    /\ ret' = [op |-> "aggregate_commitment", ancestors |-> ancestors,
               vote_accounts |-> vote_accounts,
               aggregate |-> aggregate_commitment(ancestors, vote_accounts)]
    /\ UNCHANGED tower

----------------------------------------------------------------------------
(* Specification of the commitment aggregation: any ascending list of      *)
(* ancestors among a few slots and a bank of at most two vote accounts, or *)
(* of three whose vote states have a root and no vote.  A vote state has a *)
(* root or none and at most two votes above it.                            *)

AggMaxSlot == 3
AggMaxStake == 2
AggMaxVotes == 2

AggSlots == 0..AggMaxSlot

\* status_cache_ancestors(): ascending slots
AggAncestors == {Ascending(slots) : slots \in SUBSET AggSlots \ {{}}}

AggVoteStates ==
    {process_slots([votes |-> <<>>, root_slot |-> r], Ascending(slots)) :
         r \in {None} \cup AggSlots,
         slots \in {v \in SUBSET AggSlots : Cardinality(v) <= AggMaxVotes}}

\* The vote states of the bank: the votes are above the root.
AggBankVoteStates ==
    {vs \in AggVoteStates :
         \A i \in DOMAIN vs.votes : vs.votes[i].slot > vs.root_slot}

AggAccounts(key) ==
    {[key |-> key, stake |-> stake,
      account |-> [data |-> serialize_vote_state(vs)]] :
         stake \in 1..AggMaxStake, vs \in AggBankVoteStates}
        \cup {[key |-> key, stake |-> 0,
               account |-> [data |-> serialize_vote_state(DefaultVoteState)]],
              [key |-> key, stake |-> 1, account |-> [data |-> <<>>]]}

AggRootedAccounts(key) ==
    {a \in AggAccounts(key) :
         /\ a.stake > 0
         /\ VoteState_from(a.account) # <<>>
         /\ VoteState_from(a.account)[1].root_slot # None
         /\ VoteState_from(a.account)[1].votes = <<>>}

AggVoteAccounts ==
    {<<>>}
        \cup {<<a>> : a \in AggAccounts(11)}
        \cup {<<a, b>> : a \in AggAccounts(11), b \in AggAccounts(12)}
        \cup {<<a, b, c>> : a \in AggRootedAccounts(11),
                            b \in AggRootedAccounts(12),
                            c \in AggRootedAccounts(13)}

AggregateQuery ==
    /\ ret.op # "aggregate_commitment"
    /\ \E ancestors \in AggAncestors : \E vote_accounts \in AggVoteAccounts :
           AggregateCommitment(ancestors, vote_accounts)
    /\ UNCHANGED <<gaps, disk, forks, aggregator>>

AggregateReturn ==
    /\ ret.op = "aggregate_commitment"
    /\ Return
    /\ UNCHANGED <<gaps, disk, forks, aggregator>>

NextAggregate == AggregateQuery \/ AggregateReturn

SpecAggregate == InitStack /\ [][NextAggregate]_vars

\* --------------------------------------------------------------------------
\* The rooted stake that aggregate_commitment gives the ancestors
\* (SpecAggregate).

\* The last operation aggregated the commitment of a bank.
Aggregated ==
    ret.op = "aggregate_commitment" /\ ret.aggregate.status = "Ok"

AggAncestorSet == {ret.ancestors[i] : i \in DOMAIN ret.ancestors}

\* The vote state of the counted vote account at position i.
AggVoteState(i) == VoteState_from(ret.vote_accounts[i].account)[1]

\* The counted vote accounts whose root is at the slot or above it.
RootedAtOrAbove(slot) ==
    {i \in DOMAIN ret.vote_accounts :
        /\ Counted(i)
        /\ AggVoteState(i).root_slot # None
        /\ AggVoteState(i).root_slot >= slot}

\* C25: after the aggregation the rooted stake of every ancestor is the
\* total stake of the counted vote accounts whose root is at or above the
\* ancestor, and only ancestors have a commitment.
C25_RootedStake ==
    Aggregated =>
        /\ DOMAIN ret.aggregate.commitment \subseteq AggAncestorSet
        /\ \A a \in AggAncestorSet :
               get_rooted_stake(entry_or_default(ret.aggregate.commitment, a))
                   = StakeOf(ret.vote_accounts, RootedAtOrAbove(a))

\* C25 witness: two counted vote accounts with different roots, and three
\* ancestors: one not above the smaller root, one between the roots and
\* one above both.
C25_Witness ==
    /\ Aggregated
    /\ \E i \in DOMAIN ret.vote_accounts : \E j \in DOMAIN ret.vote_accounts :
       \E a \in AggAncestorSet : \E b \in AggAncestorSet :
       \E c \in AggAncestorSet :
           /\ RootedAtOrAbove(a) = {i, j}
           /\ RootedAtOrAbove(b) = {j}
           /\ RootedAtOrAbove(c) = {}
           /\ i # j
           /\ get_rooted_stake(ret.aggregate.commitment[a])
                  = ret.vote_accounts[i].stake + ret.vote_accounts[j].stake
           /\ get_rooted_stake(ret.aggregate.commitment[b])
                  = ret.vote_accounts[j].stake

\* --------------------------------------------------------------------------
\* The rooted_stake map of aggregate_commitment (SpecAggregate).

\* C26: the keys of rooted_stake are the roots of the counted vote
\* accounts, each key maps to the total stake of the accounts whose root
\* is at or above it, in whatever order the accounts were visited, and the
\* stake does not grow with the slot.
C26_RootedStakeMap ==
    Aggregated =>
        /\ DOMAIN ret.aggregate.rooted_stake
               = {AggVoteState(i).root_slot : i \in RootedAtOrAbove(0)}
        /\ \A s \in DOMAIN ret.aggregate.rooted_stake :
               ret.aggregate.rooted_stake[s]
                   = StakeOf(ret.vote_accounts, RootedAtOrAbove(s))
        /\ \A s \in DOMAIN ret.aggregate.rooted_stake :
           \A t \in DOMAIN ret.aggregate.rooted_stake :
               s < t => ret.aggregate.rooted_stake[s]
                            >= ret.aggregate.rooted_stake[t]

\* C26 witness: three vote accounts with three roots, the last visited
\* one between the roots of the other two, and a fourth case of the visit
\* order: the smallest root visited last.
C26_Witness ==
    /\ Aggregated
    /\ Len(ret.vote_accounts) = 3
    /\ \A i \in 1..3 : i \in RootedAtOrAbove(0)
    /\ AggVoteState(2).root_slot < AggVoteState(3).root_slot
    /\ AggVoteState(3).root_slot < AggVoteState(1).root_slot
    /\ ret.aggregate.rooted_stake[AggVoteState(3).root_slot]
           = ret.vote_accounts[1].stake + ret.vote_accounts[3].stake

\* --------------------------------------------------------------------------
\* The confirmation stake that aggregate_commitment gives the ancestors
\* (SpecAggregate).

\* The commitment aggregated from the vote account at position i alone.
CommitmentOf(i) ==
    aggregate_commitment(ret.ancestors, <<ret.vote_accounts[i]>>).commitment

\* The oldest vote of the stack whose slot is at or above the slot, as
\* <<lockout>>, or <<>> when the slot is above the newest vote.
OldestVoteAtOrAbove(votes, slot) ==
    LET at == {n \in DOMAIN votes : votes[n].slot >= slot}
    IN  IF at = {} THEN <<>>
        ELSE <<votes[CHOOSE n \in at : \A k \in at : n <= k]>>

\* C27: a counted vote account gives its stake to every ancestor above its
\* root and not above its newest vote, at the confirmation count of its
\* oldest vote at or above the ancestor and at no other; it gives nothing
\* to an ancestor above its newest vote; and every entry of the
\* aggregated commitment is the sum of what the accounts give.
C27_ConfirmationStake ==
    Aggregated =>
        \A given \in {[n \in DOMAIN ret.vote_accounts |-> CommitmentOf(n)]} :
            /\ \A i \in DOMAIN ret.vote_accounts : \A a \in AggAncestorSet :
                   (Counted(i) /\ a > AggVoteState(i).root_slot) =>
                       LET vote == OldestVoteAtOrAbove(AggVoteState(i).votes,
                                                      a)
                       IN  entry_or_default(given[i], a) =
                               IF vote = <<>> THEN DefaultBlockCommitment
                               ELSE [c \in DOMAIN DefaultBlockCommitment |->
                                        IF c = vote[1].confirmation_count
                                        THEN ret.vote_accounts[i].stake
                                        ELSE 0]
            /\ \A a \in AggAncestorSet :
               \A c \in DOMAIN DefaultBlockCommitment :
                   entry_or_default(ret.aggregate.commitment, a)[c]
                       = LET sum[n \in 0..Len(ret.vote_accounts)] ==
                                 IF n = 0 THEN 0
                                 ELSE sum[n - 1]
                                          + entry_or_default(given[n], a)[c]
                         IN  sum[Len(ret.vote_accounts)]

\* C27 witness: a counted vote account with two votes of different
\* confirmation counts, an ancestor credited at each of the counts, and an
\* ancestor above the newest vote that is credited nothing.
C27_Witness ==
    /\ Aggregated
    /\ \E i \in DOMAIN ret.vote_accounts :
       \E a \in AggAncestorSet : \E b \in AggAncestorSet :
       \E c \in AggAncestorSet :
           /\ Counted(i)
           /\ Len(AggVoteState(i).votes) = 2
           /\ a > AggVoteState(i).root_slot
           /\ a <= AggVoteState(i).votes[1].slot
           /\ b > AggVoteState(i).votes[1].slot
           /\ b <= AggVoteState(i).votes[2].slot
           /\ c > AggVoteState(i).votes[2].slot
           /\ AggVoteState(i).votes[1].confirmation_count = 2
           /\ Len(ret.vote_accounts) = 1
           /\ ret.aggregate.commitment[a][2] = ret.vote_accounts[i].stake
           /\ ret.aggregate.commitment[b][1] = ret.vote_accounts[i].stake
           /\ c \notin DOMAIN ret.aggregate.commitment

----------------------------------------------------------------------------
(* The aggregation thread: AggregateCommitmentService::new and run         *)

\* CommitmentAggregationData::new(bank, root, total_staked)
CommitmentAggregationData(bank, root_slot, total_staked) ==
    [bank |-> bank, root |-> root_slot, total_staked |-> total_staked]

\* BlockCommitmentCache::new(block_commitment, largest_confirmed_root,
\* total_stake, bank, root)
BlockCommitmentCache_new(block_commitment, confirmed_root, total_stake, bank, root_slot) ==
    [block_commitment |-> block_commitment,
     largest_confirmed_root |-> confirmed_root,
     total_stake |-> total_stake, bank |-> bank, root |-> root_slot]

\* The search accepting a rooted stake that only equals the threshold.
RECURSIVE find_confirmed_root_inclusive(_, _, _, _)
find_confirmed_root_inclusive(rooted_stake, slots, i, total_staked) ==
    IF i = 0 THEN 0
    ELSE IF rooted_stake[slots[i]] * VOTE_THRESHOLD_SIZE.den
                >= VOTE_THRESHOLD_SIZE.num * total_staked
    THEN slots[i]
    ELSE find_confirmed_root_inclusive(rooted_stake, slots, i - 1,
                                       total_staked)

\* rooted_stake.into_iter().rev().find(|(_, stake)| stake / total_staked >
\* VOTE_THRESHOLD_SIZE).unwrap_or_default().0, from position i of the
\* ascending slots downwards
RECURSIVE find_confirmed_root(_, _, _, _)
find_confirmed_root(rooted_stake, slots, i, total_staked) ==
    IF i = 0 THEN 0
    ELSE IF ratio_exceeds(rooted_stake[slots[i]], total_staked,
                          VOTE_THRESHOLD_SIZE)
    THEN slots[i]
    ELSE find_confirmed_root(rooted_stake, slots, i - 1, total_staked)

\* The snapshot whose root is the slot of its bank.
snapshot_rooted_at_bank(aggregation_data) ==
    LET aggregate == aggregate_commitment(aggregation_data.bank.ancestors,
                         aggregation_data.bank.vote_accounts)
    IN  BlockCommitmentCache_new(
            aggregate.commitment,
            find_confirmed_root(aggregate.rooted_stake,
                Ascending(DOMAIN aggregate.rooted_stake),
                Cardinality(DOMAIN aggregate.rooted_stake),
                aggregation_data.total_staked),
            aggregation_data.total_staked,
            aggregation_data.bank,
            aggregation_data.bank.slot)

\* The new BlockCommitmentCache that run builds from the update it holds,
\* whose bank has ancestors: the aggregated commitment, the largest
\* confirmed root, and the total stake, bank and root of the update.
snapshot(aggregation_data) ==
    CHOOSE new_block_commitment \in
        {BlockCommitmentCache_new(
             aggregate.commitment,
             find_confirmed_root(aggregate.rooted_stake,
                 Ascending(DOMAIN aggregate.rooted_stake),
                 Cardinality(DOMAIN aggregate.rooted_stake),
                 aggregation_data.total_staked),
             aggregation_data.total_staked,
             aggregation_data.bank,
             aggregation_data.root) :
         aggregate \in
             {aggregate_commitment(aggregation_data.bank.ancestors,
                                   aggregation_data.bank.vote_accounts)}} :
        TRUE

\* The number of updates waiting in the channel.
Queued == Len(sender.sent) - service.received

\* The drain that keeps the update received first.
drain_keeping_first(aggregation_data, new_data) == aggregation_data

\* while let Ok(new_data) = receiver.try_recv() { aggregation_data =
\* new_data; }: an update is held as its position in the send order.
drain(aggregation_data, new_data) == new_data

\* A Sender sends an update.
Send(aggregation_data) ==
    /\ sender.connected
    /\ service.at \notin {"exited", "panicked"}
    /\ sender' = [sender EXCEPT !.sent = Append(@, aggregation_data)]
    /\ UNCHANGED <<exit, service, block_commitment_cache>>

\* The last Sender is dropped.
DropSender ==
    /\ sender.connected
    /\ sender' = [sender EXCEPT !.connected = FALSE]
    /\ UNCHANGED <<exit, service, block_commitment_cache>>

\* The owner of the service sets the exit flag.
SetExit ==
    /\ ~exit
    /\ exit' = TRUE
    /\ UNCHANGED <<sender, service, block_commitment_cache>>

\* if exit.load(Ordering::Relaxed), at the top of the loops
ServiceCheckExit ==
    /\ service.at = "check"
    /\ service' = [service EXCEPT !.at = IF exit THEN "exited" ELSE "recv"]
    /\ UNCHANGED <<sender, exit, block_commitment_cache>>

\* receiver.recv_timeout(..) returns the oldest update of the channel
ServiceRecv ==
    /\ service.at = "recv"
    /\ Queued > 0
    /\ service' = [service EXCEPT !.at = "drain",
                                  !.received = @ + 1,
                                  !.aggregation_data = service.received + 1]
    /\ UNCHANGED <<sender, exit, block_commitment_cache>>

\* The receive that ends the thread on any timeout.
ServiceRecvTimeout_terminating ==
    /\ service.at = "recv"
    /\ Queued = 0
    /\ sender.connected
    /\ service' = [service EXCEPT !.at = "exited"]
    /\ UNCHANGED <<sender, exit, block_commitment_cache>>

\* receiver.recv_timeout(..) times out: run returns the error and the
\* thread calls it again
ServiceRecvTimeout ==
    /\ service.at = "recv"
    /\ Queued = 0
    /\ sender.connected
    /\ service' = [service EXCEPT !.at = "check"]
    /\ UNCHANGED <<sender, exit, block_commitment_cache>>

\* The receive that reports the disconnection before the queued updates.
ServiceRecvDisconnected_dropping_queue ==
    /\ service.at = "recv"
    /\ ~sender.connected
    /\ service' = [service EXCEPT !.at = "exited"]
    /\ UNCHANGED <<sender, exit, block_commitment_cache>>

\* receiver.recv_timeout(..) finds the channel empty and disconnected
ServiceRecvDisconnected ==
    /\ service.at = "recv"
    /\ Queued = 0
    /\ ~sender.connected
    /\ service' = [service EXCEPT !.at = "exited"]
    /\ UNCHANGED <<sender, exit, block_commitment_cache>>

\* receiver.try_recv() returns an update
ServiceTryRecv ==
    /\ service.at = "drain"
    /\ Queued > 0
    /\ service' = [service EXCEPT
                      !.received = @ + 1,
                      !.aggregation_data = drain(@, service.received + 1)]
    /\ UNCHANGED <<sender, exit, block_commitment_cache>>

\* receiver.try_recv() returns an error: the drain ends, and an update
\* whose bank has no ancestors is dropped
ServiceDrained ==
    /\ service.at = "drain"
    /\ Queued = 0
    /\ service' =
           [service EXCEPT
               !.at = IF sender.sent[service.aggregation_data].bank.ancestors
                           = <<>>
                      THEN "check" ELSE "aggregate"]
    /\ UNCHANGED <<sender, exit, block_commitment_cache>>

\* The aggregation, and the swap of the new cache into the shared one under
\* its write lock; published lists the updates whose snapshots were
\* written, by their positions in the send order.
ServicePublish ==
    /\ service.at = "aggregate"
    /\ \E aggregation_data \in {sender.sent[service.aggregation_data]} :
           IF aggregate_commitment(aggregation_data.bank.ancestors,
                                   aggregation_data.bank.vote_accounts
              ).status = "panic"
           THEN /\ service' = [service EXCEPT !.at = "panicked"]
                /\ UNCHANGED block_commitment_cache
           ELSE /\ service' = [service EXCEPT
                                  !.at = "check",
                                  !.published =
                                      Append(@, service.aggregation_data)]
                /\ \E new_block_commitment \in {snapshot(aggregation_data)} :
                       block_commitment_cache' = new_block_commitment
    /\ UNCHANGED <<sender, exit>>

----------------------------------------------------------------------------
(* Specification of the commitment service: a replay driver whose root     *)
(* only advances sends a few updates, for banks of any of three slots in   *)
(* any order, one of them without ancestors; it may drop its Sender, and   *)
(* the exit flag may be set, at any time.                                  *)

MaxUpdates == 3
ServiceMaxRoot == 1

\* A vote account whose vote state has the root and no votes.
RootedAccount(key, stake, root_slot) ==
    [key |-> key, stake |-> stake,
     account |-> [data |-> serialize_vote_state(
                              [votes |-> <<>>, root_slot |-> root_slot])]]

\* The banks: their slots, status cache ancestors and vote accounts.
ServiceBanks ==
    {[slot |-> 4, ancestors |-> <<0, 1, 2, 3, 4>>,
      vote_accounts |-> <<RootedAccount(11, 2, 2), RootedAccount(12, 1, 1)>>],
     [slot |-> 3, ancestors |-> <<0, 1, 2, 3>>,
      vote_accounts |-> <<RootedAccount(11, 2, 2), RootedAccount(12, 1, 2)>>],
     [slot |-> 2, ancestors |-> <<>>,
      vote_accounts |-> <<RootedAccount(11, 2, None)>>]}

\* bank.total_epoch_stake() of the banks
ServiceTotals == {3, 5}

\* The root of the bank forks when the driver sends its next update.
DriverRoots ==
    {r \in 0..ServiceMaxRoot :
        sender.sent = <<>> \/ r >= Last(sender.sent).root}

ServiceSend ==
    /\ Len(sender.sent) < MaxUpdates
    /\ \E bank \in ServiceBanks : \E root_slot \in DriverRoots :
       \E total_staked \in ServiceTotals :
           Send(CommitmentAggregationData(bank, root_slot, total_staked))
    /\ UNCHANGED <<tower, ret, gaps, disk, forks>>

ServiceDropSender == DropSender /\ UNCHANGED <<tower, ret, gaps, disk, forks>>

ServiceSetExit == SetExit /\ UNCHANGED <<tower, ret, gaps, disk, forks>>

ServiceStep ==
    /\ \/ ServiceCheckExit
       \/ ServiceRecv
       \/ ServiceRecvTimeout
       \/ ServiceRecvDisconnected
       \/ ServiceTryRecv
       \/ ServiceDrained
       \/ ServicePublish
    /\ UNCHANGED <<tower, ret, gaps, disk, forks>>

NextService ==
    \/ ServiceSend
    \/ ServiceDropSender
    \/ ServiceSetExit
    \/ ServiceStep

SpecService == InitStack /\ [][NextService]_vars

----------------------------------------------------------------------------
(* The commitment service with a thread that keeps running: recv_timeout   *)
(* returns within its second and every other step of the loop is           *)
(* non-blocking, so a step of the thread that stays possible is taken.     *)

\* The driver sends one of two banks, one of them without ancestors, with
\* the whole stake of its vote account as the total.
LiveBanks ==
    {[slot |-> 1, ancestors |-> <<0, 1>>,
      vote_accounts |-> <<RootedAccount(11, 2, 0)>>],
     [slot |-> 2, ancestors |-> <<>>,
      vote_accounts |-> <<RootedAccount(11, 2, None)>>]}

LiveSend ==
    /\ Len(sender.sent) < MaxUpdates
    /\ \E bank \in LiveBanks : \E root_slot \in DriverRoots :
           Send(CommitmentAggregationData(bank, root_slot, 2))
    /\ UNCHANGED <<tower, ret, gaps, disk, forks>>

NextServiceLive ==
    \/ LiveSend
    \/ ServiceDropSender
    \/ ServiceSetExit
    \/ ServiceStep

SpecServiceLive ==
    InitStack /\ [][NextServiceLive]_vars /\ WF_vars(ServiceStep)

----------------------------------------------------------------------------
(* Claims about the commitment service                                     *)

\* The slots of a rooted stake map whose stake is strictly more than two
\* thirds of the total.
SuperMajorityRoots(rooted_stake, total_staked) ==
    {s \in DOMAIN rooted_stake : 3 * rooted_stake[s] > 2 * total_staked}

\* C28: the largest_confirmed_root of a published snapshot is the greatest
\* slot of the rooted stake map of its bank whose rooted stake is strictly
\* more than 2/3 of the snapshot's total stake, and 0 when there is none.
C28_LargestConfirmedRoot ==
    service.published # <<>> =>
        \A rooted_stake \in
               {aggregate_commitment(
                    block_commitment_cache.bank.ancestors,
                    block_commitment_cache.bank.vote_accounts).rooted_stake} :
        \A qualifying \in
               {SuperMajorityRoots(rooted_stake,
                                   block_commitment_cache.total_stake)} :
            /\ qualifying # {} =>
                   /\ block_commitment_cache.largest_confirmed_root
                          \in qualifying
                   /\ \A s \in qualifying :
                          s <= block_commitment_cache.largest_confirmed_root
            /\ qualifying = {} =>
                   block_commitment_cache.largest_confirmed_root = 0

\* A published snapshot whose greatest rooted slot holds exactly 2/3 of the
\* total stake, so that the largest confirmed root is a lower slot.
C28_Witness ==
    /\ service.published # <<>>
    /\ block_commitment_cache.largest_confirmed_root = 1
    /\ block_commitment_cache.total_stake = 3
    /\ LET rooted_stake ==
               aggregate_commitment(
                   block_commitment_cache.bank.ancestors,
                   block_commitment_cache.bank.vote_accounts).rooted_stake
       IN  /\ DOMAIN rooted_stake = {1, 2}
           /\ rooted_stake[2] = 2
           /\ rooted_stake[1] = 3

\* C29: the thread ends a drain only on an empty channel, holding the
\* update sent last; the shared cache changes only when the thread writes
\* the snapshot of the update received last, so that the updates received
\* before it in the same drain are never published.
C29_PublishesLatest ==
    [][/\ (service.at = "drain" /\ service'.at # "drain") =>
              /\ service.received = Len(sender.sent)
              /\ service.aggregation_data = service.received
       /\ (service'.published # service.published) =>
              /\ service'.published =
                     Append(service.published, service.received)
              /\ block_commitment_cache' =
                     snapshot(sender.sent[service.received])
       /\ (block_commitment_cache' # block_commitment_cache) =>
              service'.published # service.published
       /\ \A i \in 1..(Len(service.published) - 1) :
              service.published[i] < service.published[i + 1]]_vars

\* The first update had a bank with ancestors and was superseded in the
\* drain by a different second update, the only one published, while a
\* third update was sent after the drain ended.
C29_Witness ==
    /\ service.published = <<2>>
    /\ Len(sender.sent) = 3
    /\ sender.sent[1].bank.ancestors # <<>>
    /\ snapshot(sender.sent[1]) # snapshot(sender.sent[2])
    /\ block_commitment_cache = snapshot(sender.sent[2])

C31_Terminates ==
    /\ (exit \/ ~sender.connected) ~> (service.at = "exited")
    /\ [][(service.at # "exited" /\ service'.at = "exited") =>
              (exit \/ ~sender.connected)]_vars
    /\ [][(service.at = "recv" /\ Queued = 0 /\ sender.connected /\ ~exit
              /\ service' # service) => service'.at = "check"]_vars

\* The thread has terminated on the exit flag, with its channel connected
\* and updates still waiting in it.
C31_Witness ==
    /\ service.at = "exited"
    /\ exit
    /\ sender.connected
    /\ Queued > 0

\* C39: while the exit flag stays unset, the last update sent, when its
\* bank has ancestors, is eventually the one whose snapshot the shared
\* cache holds, also when the Sender has been dropped after sending it.
C39_LastUpdatePublished ==
    \A k \in 1..(MaxUpdates + 1) :
        (/\ Len(sender.sent) = k
         /\ sender.sent[k].bank.ancestors # <<>>)
        ~> (\/ exit
            \/ Len(sender.sent) > k
            \/ /\ service.published # <<>>
               /\ Last(service.published) = k
               /\ block_commitment_cache.bank = sender.sent[k].bank
               /\ block_commitment_cache.root = sender.sent[k].root
               /\ block_commitment_cache.total_stake
                      = sender.sent[k].total_staked)

\* The thread has terminated on the dropped Sender, with the exit flag
\* unset, after publishing the last of two or more updates.
C39_Witness ==
    /\ service.at = "exited"
    /\ ~exit
    /\ ~sender.connected
    /\ Len(sender.sent) >= 2
    /\ service.published # <<>>
    /\ Last(service.published) = Len(sender.sent)
    /\ block_commitment_cache = snapshot(Last(sender.sent))

----------------------------------------------------------------------------
(* reconcile_blockstore_roots_with_tower                                   *)

\* A blockstore: the slots that have a slot meta, the slots marked as
\* roots, and last_root().
NewBlockstore(slot_metas, roots, last_root_slot) ==
    [slot_metas |-> slot_metas, roots |-> roots, last_root |-> last_root_slot]

\* blockstore.slot_meta_iterator(slot): the slots of the slot metas from
\* slot on, ascending
slot_meta_iterator(blockstore, slot) ==
    Ascending({s \in blockstore.slot_metas : s >= slot})

\* The take_while that stops at the root of the tower.
RECURSIVE take_while_below(_, _, _)
take_while_below(slots, i, tower_root) ==
    IF i > Len(slots) THEN <<>>
    ELSE IF slots[i] < tower_root
    THEN <<slots[i]>> \o take_while_below(slots, i + 1, tower_root)
    ELSE <<>>

\* .take_while(|slot| *slot <= tower_root).collect(), from position i
RECURSIVE take_while_at_most(_, _, _)
take_while_at_most(slots, i, tower_root) ==
    IF i > Len(slots) THEN <<>>
    ELSE IF slots[i] <= tower_root
    THEN <<slots[i]>> \o take_while_at_most(slots, i + 1, tower_root)
    ELSE <<>>

\* blockstore.set_roots(rooted_slots): every slot of the list is marked as
\* a root, and last_root() becomes the greatest of them if that is greater
set_roots(blockstore, rooted_slots) ==
    [blockstore EXCEPT
        !.roots = @ \cup SeqToSet(rooted_slots),
        !.last_root =
            IF \E s \in SeqToSet(rooted_slots) : s > @
            THEN CHOOSE s \in SeqToSet(rooted_slots) :
                     \A u \in SeqToSet(rooted_slots) : u <= s
            ELSE @]

\* reconcile_blockstore_roots_with_tower(tower, blockstore): the blockstore
\* it leaves
reconcile_blockstore_roots_with_tower(t, blockstore) ==
    IF root(t) = None THEN blockstore
    ELSE IF blockstore.last_root < root(t)
    THEN set_roots(blockstore,
                   take_while_at_most(
                       slot_meta_iterator(blockstore,
                                          blockstore.last_root + 1),
                       1, root(t)))
    ELSE blockstore

ReconcileBlockstoreRootsWithTower(blockstore) ==
    /\ ret' = [op |-> "reconcile_blockstore_roots_with_tower",
               tower_root |-> root(tower),
               before |-> blockstore,
               after |-> reconcile_blockstore_roots_with_tower(tower,
                                                               blockstore)]
    /\ UNCHANGED tower

----------------------------------------------------------------------------
(* Specification of the reconciliation at startup: a tower restored with   *)
(* any root or none, and a blockstore with any slot metas whose last root  *)
(* is its greatest root, or 0 when it has none.                            *)

ReconcileMaxSlot == 4

\* The tower as it is at startup, with the root it was saved with.
ReconcileBoot ==
    /\ ret.op = "none"
    /\ \E tower_root \in {None} \cup (0..ReconcileMaxSlot) :
           tower' = [DefaultTower EXCEPT !.lockouts.root_slot = tower_root]
    /\ UNCHANGED <<ret, gaps, disk, forks, aggregator>>

Blockstores ==
    {NewBlockstore(slot_metas, roots, last_root_slot) :
        slot_metas \in SUBSET (0..ReconcileMaxSlot),
        roots \in SUBSET (0..(ReconcileMaxSlot - 1)),
        last_root_slot \in 0..(ReconcileMaxSlot - 1)}

ReconcileQuery ==
    /\ ret.op = "none"
    /\ \E blockstore \in Blockstores :
           /\ \A s \in blockstore.roots : s <= blockstore.last_root
           /\ blockstore.roots = {} => blockstore.last_root = 0
           /\ blockstore.roots # {} =>
                  blockstore.last_root \in blockstore.roots
           /\ ReconcileBlockstoreRootsWithTower(blockstore)
    /\ UNCHANGED <<gaps, disk, forks, aggregator>>

ReconcileReturn ==
    /\ ret.op = "reconcile_blockstore_roots_with_tower"
    /\ Return
    /\ UNCHANGED <<gaps, disk, forks, aggregator>>

NextReconcile == ReconcileBoot \/ ReconcileQuery \/ ReconcileReturn

SpecReconcile == InitStack /\ [][NextReconcile]_vars

\* The last operation reconciled a blockstore with the tower.
Reconciled == ret.op = "reconcile_blockstore_roots_with_tower"

\* C32: when the tower has a root above the last root of the blockstore,
\* the roots of the blockstore grow by exactly the slots that have a slot
\* meta and lie above the last root and at or below the root of the tower;
\* when the tower has no root, or one at or below the last root, the
\* blockstore stays as it was.
C32_ReconcilesRoots ==
    Reconciled =>
        IF ret.tower_root # None /\ ret.tower_root > ret.before.last_root
        THEN /\ ret.after.roots =
                    ret.before.roots \cup
                    {s \in ret.before.slot_metas :
                        ret.before.last_root < s /\ s <= ret.tower_root}
             /\ ret.after.slot_metas = ret.before.slot_metas
        ELSE ret.after = ret.before

\* A tower with root 3 against a blockstore with last root 1 and slot metas
\* 1, 2, 3 and 4: slots 2 and 3 become roots, slot 4 does not.
C32_Witness ==
    /\ Reconciled
    /\ ret.tower_root = 3
    /\ ret.before.last_root = 1
    /\ ret.before.roots = {0, 1}
    /\ ret.before.slot_metas = {1, 2, 3, 4}
    /\ ret.after.roots = {0, 1, 2, 3}
    /\ ret.after.last_root = 3

\* --------------------------------------------------------------------------
\* Votes on consecutive slots from a fresh tower (SpecStack with no slot
\* skipped).

\* C33: after the votes for the slots 0 .. n-1, n <= 32, and no other, the
\* stack holds the n slots in order and the lockout of slot i has
\* confirmation_count n - i, hence lockout 2^(n - i).
C33_ConsecutiveVotes ==
    (/\ gaps = 0
     /\ tower.lockouts.votes # <<>>
     /\ Last(tower.lockouts.votes).slot < MAX_LOCKOUT_HISTORY) =>
        \A n \in {Last(tower.lockouts.votes).slot + 1} :
            /\ tower.lockouts.root_slot = None
            /\ Len(tower.lockouts.votes) = n
            /\ \A i \in 0..(n - 1) :
                   /\ tower.lockouts.votes[i + 1].slot = i
                   /\ tower.lockouts.votes[i + 1].confirmation_count = n - i
                   /\ n - i <= 30 =>
                          lockout(tower.lockouts.votes[i + 1]) = 2 ^ (n - i)

\* The slots 0 .. 31 were voted on: slot 0 has confirmation_count 32 and
\* slot 31 has 1.
C33_Witness ==
    /\ gaps = 0
    /\ Len(tower.lockouts.votes) = MAX_LOCKOUT_HISTORY
    /\ tower.lockouts.votes[1] =
           [slot |-> 0, confirmation_count |-> MAX_LOCKOUT_HISTORY]
    /\ Last(tower.lockouts.votes) =
           [slot |-> MAX_LOCKOUT_HISTORY - 1, confirmation_count |-> 1]
    /\ tower.lockouts.root_slot = None

----------------------------------------------------------------------------
(* Specification of guarded voting: on one tree of banks with three forks, *)
(* a fresh tower records a vote for any slot of the tree for which         *)
(* is_locked_out returns false, as the replay driver does.                 *)

\* The parent of each slot 1, 2, ... of the tree; slot 0 is its root.
\*   0 - 1 - 2 - 4 - 6 - 9 - 12
\*        \ 3 - 5 - 7 - 10 - 13
\*        \ 8 - 11 - 14
GuardedParent == <<0, 1, 1, 2, 3, 4, 5, 1, 6, 7, 8, 9, 10, 11>>

\* ancestors[slot] of the tree
RECURSIVE GuardedAncestors(_)
GuardedAncestors(slot) ==
    IF slot = 0 THEN {}
    ELSE {GuardedParent[slot]} \cup GuardedAncestors(GuardedParent[slot])

GuardedVote ==
    /\ \E slot \in 0..Len(GuardedParent) :
           /\ is_locked_out(tower, slot, GuardedAncestors(slot)) = "false"
           /\ RecordBankVote(NewVote(<<slot>>, 0))
    /\ UNCHANGED <<gaps, disk, forks, aggregator>>

NextGuarded == GuardedVote

SpecGuarded == InitStack /\ [][NextGuarded]_vars

\* C34: every recorded slot is above the last voted slot it found, and on
\* the stack every lockout's slot is an ancestor of the slot of every
\* lockout above it.
C34_OneFork ==
    /\ (ret.op = "record_bank_vote" /\ ret.before.votes # <<>>) =>
           Last(ret.vote.slots) > Last(ret.before.votes).slot
    /\ \A i \in DOMAIN tower.lockouts.votes :
       \A j \in DOMAIN tower.lockouts.votes :
           i < j => tower.lockouts.votes[i].slot
                        \in GuardedAncestors(tower.lockouts.votes[j].slot)

\* The tower had voted for slot 2 and, that lockout expired, has recorded
\* slot 5 of another fork over the common ancestors 0 and 1.
C34_Witness ==
    /\ ret.op = "record_bank_vote"
    /\ voted_slots(tower) = <<0, 1, 5>>
    /\ \E i \in DOMAIN ret.before.votes : ret.before.votes[i].slot = 2

\* --------------------------------------------------------------------------
\* The votes a successful adjustment keeps, and the adjustments that are
\* rejected (SpecReplay), stated vote by vote.

\* C35: on success there is a position k of the stack, 0 or that of a vote
\* classified Found with no Found vote above it, such that the adjusted
\* stack is the votes above k, in their order and with their confirmation
\* counts: Future votes and NotFound votes above k are all kept.
C35_KeepsNewerThanFound ==
    AdjustOk =>
        \E k \in 0..Len(VotesBefore) :
            /\ k > 0 => Classify(VotesBefore[k].slot) = "Found"
            /\ \A i \in (k + 1)..Len(VotesBefore) :
                   Classify(VotesBefore[i].slot) # "Found"
            /\ Len(tower.lockouts.votes) = Len(VotesBefore) - k
            /\ \A i \in 1..(Len(VotesBefore) - k) :
                   /\ tower.lockouts.votes[i].slot = VotesBefore[k + i].slot
                   /\ tower.lockouts.votes[i].confirmation_count =
                          VotesBefore[k + i].confirmation_count

\* A successful adjustment that removed a Found vote and kept two votes
\* that the slot history does not hold, below the replayed root.
C35_Witness ==
    /\ AdjustOk
    /\ NewestFound > 0
    /\ Len(tower.lockouts.votes) = 2
    /\ \A i \in 1..2 :
           /\ Classify(tower.lockouts.votes[i].slot) = "NotFound"
           /\ tower.lockouts.votes[i].slot < ret.replayed_root_slot
    /\ tower.lockouts.root_slot = ret.replayed_root_slot

KeptBy(s) ==
    LET in_force == {j \in DOMAIN ret.before.votes :
                        \/ ret.before.votes[j].confirmation_count >= SlotBits
                        \/ expiration_slot(ret.before.votes[j]) >= s}
    IN  IF in_force = {} THEN 0
        ELSE CHOOSE j \in in_force : \A k \in in_force : k <= j

\* C37: a vote at a new slot s that leaves the stack below its capacity
\* keeps the lockouts up to the topmost one still in force at s, one
\* ending exactly at s included, and removes those above it; a kept
\* lockout gains a confirmation only where the number of lockouts from it
\* to the new top exceeds its confirmation_count.  A tower that voted 0
\* and 1 is not locked out of slot 4, a child of 0, and holds
\* [(0, 2), (4, 1)] after voting for it.
C37_KeepsInForce ==
    /\ AppliedNewSlot =>
           \A s \in {Last(ret.vote.slots)} : \A k \in {KeptBy(s)} :
               k < MAX_LOCKOUT_HISTORY =>
                   /\ Len(tower.lockouts.votes) = k + 1
                   /\ Last(tower.lockouts.votes) = Lockout(s)
                   /\ \A i \in 1..k :
                          /\ tower.lockouts.votes[i].slot =
                                 ret.before.votes[i].slot
                          /\ tower.lockouts.votes[i].confirmation_count =
                                 ret.before.votes[i].confirmation_count +
                                 (IF k + 2 - i >
                                      ret.before.votes[i].confirmation_count
                                  THEN 1 ELSE 0)
    /\ voted_slots(tower) = <<0, 1>> =>
           is_locked_out(tower, 4, {0}) = "false"
    /\ (/\ AppliedNewSlot
        /\ Last(ret.vote.slots) = 4
        /\ ret.before.votes =
               <<[slot |-> 0, confirmation_count |-> 2],
                 [slot |-> 1, confirmation_count |-> 1]>>) =>
           tower.lockouts.votes =
               <<[slot |-> 0, confirmation_count |-> 2],
                 [slot |-> 4, confirmation_count |-> 1]>>

\* The vote for slot 4 after the votes for 0 and 1: the lockout of 1 was
\* removed and that of 0, which ends at slot 4, was kept at
\* confirmation_count 2.
C37_Witness ==
    /\ AppliedNewSlot
    /\ Last(ret.vote.slots) = 4
    /\ voted_slots([lockouts |-> ret.before]) = <<0, 1>>
    /\ expiration_slot(ret.before.votes[1]) = 4
    /\ tower.lockouts.votes =
           <<[slot |-> 0, confirmation_count |-> 2],
             [slot |-> 4, confirmation_count |-> 1]>>

\* --------------------------------------------------------------------------
\* The entries of a slot's array that one vote account is added to
\* (SpecAggregate).

\* The sum of the entries of a BlockCommitment array.
ArraySum(block_commitment) ==
    LET sum[n \in 0..(MAX_LOCKOUT_HISTORY + 1)] ==
            IF n = 0 THEN 0 ELSE sum[n - 1] + block_commitment[n]
    IN  sum[MAX_LOCKOUT_HISTORY + 1]

\* C38: the aggregation of one counted vote account alone puts its stake
\* into at most one entry of the array of each ancestor, whatever its
\* root, its votes and the ancestors, and after aggregate_commitment the
\* entries of the array of any slot sum to at most the total stake of the
\* counted vote accounts.
C38_AtMostOneEntry ==
    Aggregated =>
        /\ \A i \in {n \in DOMAIN ret.vote_accounts : Counted(n)} :
           \A alone \in {CommitmentOf(i)} : \A a \in DOMAIN alone :
               /\ ArraySum(alone[a]) <= ret.vote_accounts[i].stake
               /\ Cardinality({n \in DOMAIN alone[a] : alone[a][n] # 0}) <= 1
        /\ \A a \in DOMAIN ret.aggregate.commitment :
               ArraySum(ret.aggregate.commitment[a])
                   <= StakeOf(ret.vote_accounts,
                              {n \in DOMAIN ret.vote_accounts : Counted(n)})

----------------------------------------------------------------------------
(* Tower::maybe_timestamp and Tower::last_vote_and_timestamp               *)

\* Tower::maybe_timestamp(current_slot), when Utc::now().timestamp() is
\* now: the tower afterwards and the returned Option<UnixTimestamp>.
maybe_timestamp(t, current_slot, now) ==
    IF /\ IF current_slot > t.last_timestamp.slot THEN TRUE
          ELSE t.last_timestamp.slot = 0
                   /\ current_slot = t.last_timestamp.slot
       /\ now >= t.last_timestamp.timestamp
    THEN [tower |-> [t EXCEPT !.last_timestamp =
                        [slot |-> current_slot, timestamp |-> now]],
          result |-> now]
    ELSE [tower |-> t, result |-> None]

\* Tower::last_vote_and_timestamp(): the slot it asks a timestamp for
last_vote_and_timestamp_slot(t) ==
    IF last_voted_slot(t) = None THEN 0 ELSE last_voted_slot(t)

LastVoteAndTimestamp(now) ==
    LET r == maybe_timestamp(tower, last_vote_and_timestamp_slot(tower), now)
    IN  /\ tower' = r.tower
        /\ ret' = [op |-> "maybe_timestamp",
                   current_slot |-> last_vote_and_timestamp_slot(tower),
                   result |-> r.result,
                   before |-> tower.last_timestamp]

----------------------------------------------------------------------------
(* Specification of the vote timestamps: a fresh tower records votes for   *)
(* any slot and is asked for its last vote with a timestamp at any time of *)
(* a clock that may also step back.                                        *)

MaxNow == 3

TimestampRecordVote ==
    /\ \E slot \in Slots : RecordBankVote(NewVote(<<slot>>, 0))
    /\ UNCHANGED <<gaps, disk, forks, aggregator>>

TimestampLastVote ==
    /\ \E now \in 1..MaxNow : LastVoteAndTimestamp(now)
    /\ UNCHANGED <<gaps, disk, forks, aggregator>>

NextTimestamp == TimestampRecordVote \/ TimestampLastVote

SpecTimestamp == InitStack /\ [][NextTimestamp]_vars

\* C40: a timestamp is returned, after the first one, only for a slot
\* greater than the slot timestamped last, hence at most once per slot, and
\* it is not below the timestamp returned last.  (The clock starts above 0,
\* so a last_timestamp with a timestamp marks a slot as timestamped.)
C40_TimestampsOncePerSlot ==
    (/\ ret.op = "maybe_timestamp"
     /\ ret.result # None
     /\ ret.before.timestamp > 0) =>
        /\ ret.current_slot > ret.before.slot
        /\ ret.result >= ret.before.timestamp

====
